---- MODULE Spec2Model ----
(***************************************************************************)
(* Relay pool of the Obscur desktop backend                                *)
(* (apps/desktop/src-tauri/src/relay.rs).                                  *)
(*                                                                         *)
(* The pool's five maps are std::sync::Mutex-protected and shared between  *)
(* command handlers, per-connection reader/writer tasks and reconnect      *)
(* tasks, all running on a multi-threaded executor.  One step of the model *)
(* is one critical section (or one await) of one of these tasks.           *)
(*                                                                         *)
(* A connection is a slot 1..MaxConns holding the socket, the channel and  *)
(* the two tasks spawned by connect_relay; a slot is reused once both      *)
(* tasks have ended and no Sender of its channel is left.  connect_relay   *)
(* reads the network runtime (net.rs) to choose its branch: the direct     *)
(* handshake is one await that ends in a stream or in an error, the Tor    *)
(* branch is a loop of up to 30 connect_websocket calls, each of which     *)
(* reads the runtime's flag and then its proxy URL.  save_tor_settings     *)
(* (lib.rs) writes the two fields one after the other.  The socket fails   *)
(* at any time (PeerDrop); the reader and the writer each notice it at     *)
(* their next step.  Every url of the model parses and is a wss url.       *)
(* What the relay sends is a queue of stream items per connection (inbox)  *)
(* from which the reader's loop takes one item per step; an item is a text *)
(* frame that is JSON or not, a frame that is no text, a Close frame, or   *)
(* the error / end of the stream.                                          *)
(*                                                                         *)
(* The other managed states of the backend are modelled beside the pool:   *)
(* the tor settings with their file (lib.rs, save_tor_settings), the tor   *)
(* sidecar with its handle, its output channel and its status events       *)
(* (lib.rs, start_tor / stop_tor / get_tor_status), the in-memory Session  *)
(* with the keychain entry behind it (session.rs, wallet.rs) and the       *)
(* NIP-96 upload with its loop over the form field names (upload.rs).      *)
(* Commands are async and run concurrently; a step is again one critical   *)
(* section or one await of a command.                                      *)
(*                                                                         *)
(* out, lost, cancelled, streak, watch, reqs, wire, enq, evs and cfgs      *)
(* record history for the properties, as do seen, revs, nsent, wret,       *)
(* wlast, kreads, uret, tret, tevs and the alone, solo, s0, k0, r0 and     *)
(* after fields of the handlers; the code does not read them.              *)
(***************************************************************************)
EXTENDS Integers, Sequences, FiniteSets, TLC

\* ---------------------------------------------------------------- bounds
\* connections (sockets with their two tasks) that exist at the same time
MaxConns == 2
\* UI commands issued in one behaviour
MaxCmds == 2
\* slots of a connection's channel (mpsc::channel::<Message>(32), scaled down)
ChanCap == 2
\* cap of the stored backoff exponent (the code saturates at u32::MAX)
MaxExp == 8
\* UI commands issued in one behaviour of SpecBackoff
MaxConnects == 7
\* UI commands issued in one behaviour of SpecPublish and of SpecSub
MaxSerial == 3
\* UI commands issued in one behaviour of SpecTor
MaxTorCmds == 3
\* tor child processes spawned in one behaviour
MaxProcs == 2
\* stdout lines one tor process prints
MaxLines == 2
\* UI commands issued in one behaviour of SpecSup
MaxSupCmds == 4
\* UI commands issued in one behaviour of SpecWallet
MaxWCmds == 4
\* UI commands issued in one behaviour of SpecUpload
MaxUpCmds == 3
\* items the sockets' streams yield in one behaviour
MaxFrames == 2
\* UI commands issued in one behaviour of SpecReader
MaxRdCmds == 2

\* ------------------------------------------------------ program constants
BASE_MS == 1000
MAX_MS == 60000
ExpCap == 6

\* ------------------------------------------------------------- universes
Urls == {"r1"}
SubIds == {"s1", "s2"}
Filters == {"f1"}
NoFilter == "-"
Conns == 1..MaxConns
Tasks == {"t1", "t2"}
UiCalls == {"ui"}
Callers == UiCalls \cup Tasks
NoConn == 0
Proxies == {"p0", "p1"}
\* TorSettings default: "socks5://127.0.0.1:9050"
DefaultProxy == "p0"
\* no tor_settings.json ("-" is no proxy url)
NoFile == <<FALSE, "-">>
\* key strings a command can be given: a bech32 secret ("nsec1..."), a
\* 64-hex-character secret, and a string that is neither
KeyInputs == {"nsec1", "hex2", "bad"}
NoKey == "-"
\* UI calls of wallet / session commands that can be in flight together
WSlots == {"w1", "w2"}
\* tor child processes of one behaviour
Procs == 1..MaxProcs
NoProc == 0

VARIABLES
  desired,      \* RelayPool.desired : set of urls
  connections,  \* RelayPool.connections : url -> connection (NoConn = no entry)
  states,       \* RelayPool.states : url -> (sub_id -> filter)
  backoff,      \* RelayPool.reconnect_backoff_exp : url -> exponent (0 = no entry)
  inflight,     \* RelayPool.reconnect_inflight : set of urls
  connLock,     \* holder of the `connections` mutex across schedule_reconnect
  sock,         \* per connection: state of the websocket
  writer,       \* per connection: state of the writer task
  reader,       \* per connection: position of the reader task
  chan,         \* per connection: the mpsc channel (queue of frames)
  wire,         \* per connection: the frames the writer has put on the socket, in order
  curl,         \* per connection: the url it was opened for
  reqs,         \* per connection: how often each REQ frame was enqueued (0,1,2=many)
  enq,          \* per connection: the frames its channel has accepted, in order
  evs,          \* per connection: the relay-status events emitted about it, in order
  call,         \* connect_relay invocations, one slot per caller
  rtask,        \* reconnect tasks spawned by schedule_reconnect
  disc,         \* the disconnect_relay handler
  subh,         \* the subscribe_relay / unsubscribe_relay handler
  pubh,         \* the publish_event / send_relay_message handler
  out,          \* what the last step emitted / returned
  cmds,         \* number of UI commands issued so far
  lost,         \* per url: a reader exited while the url was desired, and the
                \* url has stayed desired and without a new connection since
  cancelled,    \* per url: a disconnect_relay that no user connect overlapped
                \* has returned, and no user connect was issued since
  streak,       \* per url: reconnects scheduled since the backoff entry was fresh
  watch,        \* per url: a connected relay with persisted subscriptions
                \* dropped while desired; no failure and no UI command since
  enable_tor,   \* NativeNetworkRuntime.enable_tor
  proxy_url,    \* NativeNetworkRuntime.proxy_url
  seth,         \* the save_tor_settings handler (inside NativeNetworkRuntime::set)
  cfgs,         \* the (enable_tor, proxy_url) pairs the runtime was given so far
  tsettings,    \* TorState.settings : (enable_tor, proxy_url)
  tfile,        \* the content of tor_settings.json (NoFile = no file)
  skeys,        \* SessionState.keys : the secret key held (NoKey = None)
  keychain,     \* the OS credential store entry, as written (NoKey = no entry)
  wh,           \* wallet / session command handlers, one slot per UI call
  wret,         \* what the last wallet / session command returned
  wlast,        \* the last import / logout that returned Ok, if no other
                \* key-changing command ran while it did or was invoked since
  kreads,       \* keychain reads so far (0, 1, 2 = many)
  up,           \* the nip96_upload_v2 handler
  uret,         \* what the last upload returned, with the requests it sent
  child,        \* TorState.child : the process handle held (NoProc = None)
  proc,         \* per process: state of the tor child process
  rx,           \* per process: CommandEvents not yet received by its task
  tevs,         \* the tor-status events emitted so far, in order
  tret,         \* what the last ProxySupervisor command returned
  suph,         \* the start_tor handler (it holds the TorState.child mutex)
  inbox,        \* per connection: frames from the relay the reader has not read
  seen,         \* per connection: the frames its reader has read, in order
  revs,         \* per connection: the relay-event events emitted for it
  nsent         \* items put into the connections' streams so far

vars == <<desired, connections, states, backoff, inflight, connLock, sock,
          writer, reader, chan, wire, curl, reqs, enq, evs, call, rtask, disc,
          subh, pubh, out, cmds, lost, cancelled, streak, watch, enable_tor,
          proxy_url, seth, cfgs, tsettings, tfile, skeys, keychain, wh, wret,
          wlast, kreads, up, uret, child, proc, rx, tevs, tret, suph, inbox,
          seen, revs, nsent>>

poolVars == <<desired, connections, states, backoff, inflight, connLock>>
connVars == <<sock, writer, reader, chan, wire, curl, reqs, enq>>
ghostVars == <<lost, cancelled, streak>>
netVars == <<enable_tor, proxy_url, seth, cfgs>>
persistVars == <<tsettings, tfile>>
walletVars == <<skeys, keychain, wh, wret, wlast, kreads>>
uploadVars == <<up, uret>>
supVars == <<child, proc, rx, tevs, tret, suph>>
\* what the relay has sent and what the reader made of it
rdVars == <<inbox, seen, revs, nsent>>
\* the state a step of the pool's commands and tasks leaves alone, the
\* steps of the socket's receiving side apart
appVars == <<persistVars, walletVars, uploadVars, supVars, rdVars>>
relayVars == <<poolVars, connVars, evs, call, rtask, disc, subh, pubh, out,
               ghostVars, watch, rdVars>>
Unwatch(u) == watch' = [watch EXCEPT ![u] = FALSE]

\* ---------------------------------------------------------------- frames
Frame(t, sid, f) == [t |-> t, sid |-> sid, f |-> f]
ReqFrame(sid, f) == Frame("REQ", sid, f)
CloseSubFrame(sid) == Frame("CLOSE", sid, "-")
EventFrame == Frame("EVENT", "-", "-")
RawFrame == Frame("RAW", "-", "-")
WsClose == Frame("WsClose", "-", "-")

Pairs == SubIds \X Filters

\* what a step makes visible: a relay-status event and/or a command's return
\* (ev: the event, ret: the value returned, by: the connect_relay caller,
\* cmd: "publish" or "raw" when publish_event / send_relay_message returns,
\* "tor" when connect_relay gives up after the Tor loop)
NoOut ==
  [ev |-> "none", url |-> "-", ret |-> "none", conn |-> NoConn, by |-> "-",
   cmd |-> "-"]
Emit(e, u, c) == [NoOut EXCEPT !.ev = e, !.url = u, !.conn = c]
Ret(r, u, c) == [NoOut EXCEPT !.ret = r, !.url = u, !.conn = c]
EmitRet(e, r, u, c) == [NoOut EXCEPT !.ev = e, !.ret = r, !.url = u, !.conn = c]

Min(a, b) == IF a < b THEN a ELSE b

RECURSIVE Pow2(_)
Pow2(n) == IF n = 0 THEN 1 ELSE 2 * Pow2(n - 1)

\* compute_backoff_delay(exp), in milliseconds
compute_backoff_delay(exp) ==
  LET capped_exp == Min(exp, ExpCap)
      multiplier == Pow2(capped_exp)
  IN  Min(BASE_MS * multiplier, MAX_MS)

\* ------------------------------------------------------- idle records
\* att: dials made in the Tor loop; path, proxy: what connect_websocket chose
IdleCall ==
  [pc |-> "idle", url |-> "-", conn |-> NoConn, todo |-> {}, att |-> 0,
   path |-> "-", proxy |-> "-"]
\* old: TorState.settings when the command was invoked
IdleSet == [pc |-> "idle", tor |-> FALSE, url |-> "-", old |-> NoFile]
\* op: the command; arg: its key string; keys: the Keys it holds; got: the
\* string read from the keychain; res: the result it is about to return;
\* alone: no other wallet / session command ran while it did; s0, k0: the
\* Session and the keychain entry when it was invoked; r0: kreads then;
\* solo: no key-changing command ran while it did; after: wlast then
IdleW ==
  [pc |-> "idle", op |-> "-", arg |-> "-", keys |-> "-", got |-> "-",
   alone |-> FALSE, solo |-> FALSE, s0 |-> "-", k0 |-> "-", r0 |-> 0,
   after |-> <<"-", "-">>]
\* a command's return: ret is "Ok" or "Err", val the payload; alone, s0, k0
\* are the handler's
NoWRet ==
  [op |-> "-", arg |-> "-", ret |-> "none", val |-> "-", alone |-> FALSE,
   s0 |-> "-", k0 |-> "-"]
NoLast == <<"-", "-">>
\* an error text: its kind, and the HTTP status and body it quotes, if any
NoErr == [kind |-> "No attempts made", st |-> 0, body |-> <<"-", "lower">>]
\* an UploadResponse message: its text and the last_error it quotes, if any
Msg(text, err) == [text |-> text, last |-> err]
NoMsg == Msg("-", NoErr)
\* bytes, ctype: the arguments; keys: the Session keys taken; client: the
\* HTTP client built ("-" = none); next: index of the next field name;
\* posts: the field names of the requests sent; resps: what each attempt
\* got; last_error; s0, r0: the Session and kreads at invocation
IdleUp ==
  [pc |-> "idle", bytes |-> "-", ctype |-> "-", keys |-> "-", client |-> "-",
   next |-> 1, posts |-> <<>>, resps |-> <<>>, last_error |-> NoErr,
   s0 |-> "-", r0 |-> 0]
\* ret: "Ok" (an UploadResponse with status, message) or "Err" (a NativeError
\* with code); h: the handler as it was when it returned
NoURet ==
  [ret |-> "none", status |-> "-", code |-> "-", message |-> NoMsg, h |-> IdleUp]
NoTRet == [cmd |-> "-", ret |-> "none", val |-> "-"]
\* st: "none" (not spawned), "run", "dead"; lines: stdout lines printed
NoChild == [st |-> "none", lines |-> 0]
IdleStart == [pc |-> "idle", p |-> NoProc]
IdleTask == [pc |-> "none", url |-> "-", exp |-> 0, delay |-> 0, nth |-> 0, late |-> FALSE]
IdleDisc == [pc |-> "idle", url |-> "-", tx |-> NoConn, alone |-> FALSE]
\* prev: the <<url, sub_id>> of the latest subscribe_relay, if the url's map
\* held no other subscription then and no unsubscribe_relay has returned since
NoPrev == <<"-", "-">>
IdleSub ==
  [pc |-> "idle", kind |-> "-", url |-> "-", sid |-> "-", f |-> "-",
   tx |-> NoConn, prev |-> NoPrev]
IdlePub == [pc |-> "idle", kind |-> "-", url |-> "-", tx |-> NoConn]

Init ==
  /\ desired = {}
  /\ connections = [u \in Urls |-> NoConn]
  /\ states = [u \in Urls |-> [s \in SubIds |-> NoFilter]]
  /\ backoff = [u \in Urls |-> 0]
  /\ inflight = {}
  /\ connLock = NoConn
  /\ sock = [c \in Conns |-> "none"]
  /\ writer = [c \in Conns |-> "none"]
  /\ reader = [c \in Conns |-> "none"]
  /\ chan = [c \in Conns |-> <<>>]
  /\ wire = [c \in Conns |-> <<>>]
  /\ curl = [c \in Conns |-> "-"]
  /\ reqs = [c \in Conns |-> [p \in Pairs |-> 0]]
  /\ enq = [c \in Conns |-> <<>>]
  /\ evs = [c \in Conns |-> <<>>]
  /\ call = [k \in Callers |-> IdleCall]
  /\ rtask = [t \in Tasks |-> IdleTask]
  /\ disc = IdleDisc
  /\ subh = IdleSub
  /\ pubh = IdlePub
  /\ out = NoOut
  /\ cmds = 0
  /\ lost = [u \in Urls |-> FALSE]
  /\ cancelled = [u \in Urls |-> FALSE]
  /\ streak = [u \in Urls |-> 0]
  /\ watch = [u \in Urls |-> FALSE]
  /\ enable_tor = FALSE
  /\ proxy_url = DefaultProxy
  /\ seth = IdleSet
  /\ cfgs = {<<FALSE, DefaultProxy>>}
  /\ tsettings = <<FALSE, DefaultProxy>>
  /\ tfile = NoFile
  /\ skeys = NoKey
  /\ keychain = NoKey
  /\ wh = [w \in WSlots |-> IdleW]
  /\ wret = NoWRet
  /\ wlast = NoLast
  /\ kreads = 0
  /\ up = IdleUp
  /\ uret = NoURet
  /\ child = NoProc
  /\ proc = [i \in Procs |-> NoChild]
  /\ rx = [i \in Procs |-> <<>>]
  /\ tevs = <<>>
  /\ tret = NoTRet
  /\ suph = IdleStart
  /\ inbox = [c \in Conns |-> <<>>]
  /\ seen = [c \in Conns |-> <<>>]
  /\ revs = [c \in Conns |-> 0]
  /\ nsent = 0

\* ------------------------------------------------------------ channels
\* the receiver half is dropped when the writer task ends
ChanClosed(c) == writer[c] = "dead"
ChanFull(c) == Len(chan[c]) >= ChanCap
\* tx.send(m).await can complete: with Err when closed, else when there is room
CanSend(c) == ChanClosed(c) \/ ~ChanFull(c)

Bump(n) == IF n >= 2 THEN 2 ELSE n + 1

\* a channel that hands the newest frame to the writer first (a broken
\* variant, for C14)
Enqueue_Lifo(c, m) ==
  /\ chan' = [chan EXCEPT ![c] = <<m>> \o @]
  /\ enq' = [enq EXCEPT ![c] = Append(@, m)]
  /\ reqs' = IF m.t = "REQ"
             THEN [reqs EXCEPT ![c][<<m.sid, m.f>>] = Bump(@)]
             ELSE reqs
\* tx.send(m).await returns Ok: the frame joins the queue
Enqueue(c, m) ==
  /\ chan' = [chan EXCEPT ![c] = Append(@, m)]
  /\ enq' = [enq EXCEPT ![c] = Append(@, m)]
  /\ reqs' = IF m.t = "REQ"
             THEN [reqs EXCEPT ![c][<<m.sid, m.f>>] = Bump(@)]
             ELSE reqs

TrySend(c, m) ==
  IF ChanClosed(c) THEN UNCHANGED <<chan, reqs, enq>> ELSE Enqueue(c, m)

\* live Sender handles of connection c's channel
Holders(c) ==
  \/ \E u \in Urls : connections[u] = c
  \/ \E k \in Callers : call[k].conn = c /\ call[k].pc \in {"install", "snap", "replay"}
  \/ disc.pc = "send" /\ disc.tx = c
  \/ subh.pc = "send" /\ subh.tx = c
  \/ pubh.pc = "send" /\ pubh.tx = c

FreeSlots ==
  {c \in Conns : \/ sock[c] = "none"
                 \/ (reader[c] = "dead" /\ writer[c] = "dead" /\ ~Holders(c))}

MinOf(S) == CHOOSE x \in S : \A y \in S : x <= y

FreeTasks == {t \in Tasks : rtask[t].pc = "none" /\ call[t].pc = "idle"}
Cleaning == {c \in Conns : reader[c] \in {"rm", "s_des", "s_inf", "s_bk"}}

ConnectInProgress(u) == \E k \in Callers : call[k].pc # "idle" /\ call[k].url = u

\* --------------------------------------------------------- connect_relay
\* connect_relay without its early return (a broken variant, for C8)
AlreadyConnected_NoCheck(u) == FALSE
\* connections.contains_key(&url)
AlreadyConnected(u) == connections[u] # NoConn

SubsOf(u) == {p \in Pairs : states[u][p[1]] = p[2]}

\* the call's result goes back to the UI, or to the reconnect task that made it
CallReturn(k, ok) ==
  /\ call' = [call EXCEPT ![k] = IdleCall]
  /\ rtask' = IF k \in Tasks
              THEN [rtask EXCEPT ![k].pc = IF ok THEN "clrb" ELSE "clri"]
              ELSE rtask

\* UI issues connect_relay(u), one of at most n commands: desired.insert(url)
ConnectCmd(k, u, n) ==
  /\ k \in UiCalls /\ call[k].pc = "idle" /\ cmds < n
  /\ cmds' = cmds + 1
  /\ desired' = desired \cup {u}
  /\ call' = [call EXCEPT ![k] = [IdleCall EXCEPT !.pc = "check", !.url = u]]
  /\ cancelled' = [cancelled EXCEPT ![u] = FALSE]
  /\ disc' = IF disc.url = u THEN [disc EXCEPT !.alone = FALSE] ELSE disc
  /\ out' = NoOut
  /\ UNCHANGED <<connections, states, backoff, inflight, connLock, connVars,
                 rtask, subh, pubh, lost, streak>>
  /\ Unwatch(u)
  /\ UNCHANGED evs
  /\ UNCHANGED netVars
  /\ UNCHANGED appVars

UiConnect(k, u) == ConnectCmd(k, u, MaxCmds)

\* connect_relay called from a reconnect task: desired.insert(url)
TaskConnectEnter(t) ==
  /\ t \in Tasks /\ call[t].pc = "enter"
  /\ desired' = desired \cup {call[t].url}
  /\ call' = [call EXCEPT ![t].pc = "check"]
  /\ out' = NoOut
  /\ UNCHANGED <<connections, states, backoff, inflight, connLock, connVars,
                 rtask, disc, subh, pubh, cmds, ghostVars>>
  /\ UNCHANGED watch
  /\ UNCHANGED evs
  /\ UNCHANGED netVars
  /\ UNCHANGED appVars

\* "Check if already connected"
ConnectCheck(k) ==
  /\ call[k].pc = "check" /\ connLock = NoConn
  /\ IF AlreadyConnected(call[k].url)
     THEN /\ CallReturn(k, TRUE)
          /\ out' = [Ret("Already connected", call[k].url, NoConn) EXCEPT !.by = k]
     ELSE /\ call' = [call EXCEPT ![k].pc = "route"]
          /\ out' = NoOut
          /\ UNCHANGED rtask
  /\ UNCHANGED <<poolVars, connVars, disc, subh, pubh, cmds, ghostVars>>
  /\ UNCHANGED watch
  /\ UNCHANGED evs
  /\ UNCHANGED netVars
  /\ UNCHANGED appVars

\* NativeNetworkRuntime::is_tor_enabled(): the enable_tor mutex is free
\* unless set() holds it
TorLockFree == seth.pc # "proxy"

\* "Attempt connection": if net_runtime.is_tor_enabled() { emit starting; the
\* Tor loop } else { connect_async }
ConnectRoute(k) ==
  /\ call[k].pc = "route" /\ TorLockFree
  /\ IF enable_tor
     THEN /\ call' = [call EXCEPT ![k].pc = "tor"]
          /\ out' = [Emit("starting", call[k].url, NoConn) EXCEPT !.by = k]
     ELSE /\ call' = [call EXCEPT ![k].pc = "dial"]
          /\ out' = NoOut
  /\ UNCHANGED <<poolVars, connVars, evs, rtask, disc, subh, pubh, cmds,
                 ghostVars, watch, netVars>>
  /\ UNCHANGED appVars

\* let attempts: u32 = 30
attempts == 30

\* a loop over 0..=attempts (a broken variant, for C19)
TorLoopOpen_Inclusive(k) == call[k].att <= attempts
\* for attempt_index in 0..attempts: another iteration is left
TorLoopOpen(k) == call[k].att < attempts

\* one iteration of the Tor loop enters connect_websocket:
\* if !self.is_tor_enabled() { connect_async }
TorRead(k) ==
  /\ call[k].pc = "tor" /\ TorLoopOpen(k) /\ TorLockFree
  /\ call' = IF enable_tor
             THEN [call EXCEPT ![k].pc = "tproxy"]
             ELSE [call EXCEPT ![k].pc = "tdial", ![k].path = "direct",
                               ![k].proxy = "-"]
  /\ out' = NoOut
  /\ UNCHANGED <<poolVars, connVars, evs, rtask, disc, subh, pubh, cmds,
                 ghostVars, watch, netVars>>
  /\ UNCHANGED appVars

\* connect_websocket: proxy_url = self.get_proxy_url(); the relay is wss, so
\* connect_wss_via_socks5(relay_url, &proxy_url)
TorReadProxy(k) ==
  /\ call[k].pc = "tproxy"
  /\ call' = [call EXCEPT ![k].pc = "tdial", ![k].path = "socks",
                          ![k].proxy = proxy_url]
  /\ out' = NoOut
  /\ UNCHANGED <<poolVars, connVars, evs, rtask, disc, subh, pubh, cmds,
                 ghostVars, watch, netVars>>
  /\ UNCHANGED appVars

\* the dial of connect_websocket fails: last_error = Some(err); sleep(1 s)
TorDialFail(k) ==
  /\ call[k].pc = "tdial"
  /\ call' = [call EXCEPT ![k].pc = "tor", ![k].att = @ + 1]
  /\ out' = NoOut
  /\ UNCHANGED <<poolVars, connVars, evs, rtask, disc, subh, pubh, cmds,
                 ghostVars, watch, netVars>>
  /\ UNCHANGED appVars

\* a Tor failure that is returned but not emitted (a broken variant, for C20)
TorDialError_Silent(k) == [Ret("Err", call[k].url, NoConn) EXCEPT !.by = k]
\* what connect_relay reports when the Tor loop ends without a stream
TorDialError(k) ==
  [EmitRet("error", "Err", call[k].url, NoConn) EXCEPT !.by = k, !.cmd = "tor"]

\* the loop is over and connected_stream is None: emit relay-status error,
\* return Err("Tor proxy connect failed: ..")
TorGiveUp(k) ==
  /\ call[k].pc = "tor" /\ ~TorLoopOpen(k)
  /\ CallReturn(k, FALSE)
  /\ out' = TorDialError(k)
  /\ UNCHANGED <<poolVars, connVars, evs, disc, subh, pubh, cmds, ghostVars,
                 netVars>>
  /\ Unwatch(call[k].url)
  /\ UNCHANGED appVars

\* the websocket handshake succeeds (connect_async, or connect_websocket in
\* the Tor loop): split, channel, spawn writer and reader
ConnectDialOk(k) ==
  /\ call[k].pc \in {"dial", "tdial"} /\ FreeSlots # {}
  /\ LET c == MinOf(FreeSlots) IN
       /\ sock' = [sock EXCEPT ![c] = "open"]
       /\ writer' = [writer EXCEPT ![c] = "run"]
       /\ reader' = [reader EXCEPT ![c] = "run"]
       /\ chan' = [chan EXCEPT ![c] = <<>>]
       /\ wire' = [wire EXCEPT ![c] = <<>>]
       /\ enq' = [enq EXCEPT ![c] = <<>>]
       /\ evs' = [evs EXCEPT ![c] = <<>>]
       /\ curl' = [curl EXCEPT ![c] = call[k].url]
       /\ reqs' = [reqs EXCEPT ![c] = [p \in Pairs |-> 0]]
       /\ inbox' = [inbox EXCEPT ![c] = <<>>]
       /\ seen' = [seen EXCEPT ![c] = <<>>]
       /\ revs' = [revs EXCEPT ![c] = 0]
       /\ UNCHANGED nsent
       /\ call' = [call EXCEPT ![k].pc = "install", ![k].conn = c]
  /\ out' = NoOut
  /\ UNCHANGED <<poolVars, rtask, disc, subh, pubh, cmds, ghostVars>>
  /\ UNCHANGED watch
  /\ UNCHANGED netVars
  /\ UNCHANGED <<persistVars, walletVars, uploadVars, supVars>>

\* what connect_relay reports when connect_async fails
DirectDialError(k) == [EmitRet("error", "Err", call[k].url, NoConn) EXCEPT !.by = k]

\* connect_async fails: emit relay-status error, return Err
ConnectDialFail(k) ==
  /\ call[k].pc = "dial"
  /\ CallReturn(k, FALSE)
  /\ out' = DirectDialError(k)
  /\ UNCHANGED <<poolVars, connVars, disc, subh, pubh, cmds, ghostVars>>
  /\ Unwatch(call[k].url)
  /\ UNCHANGED evs
  /\ UNCHANGED netVars
  /\ UNCHANGED appVars

\* "Add to pool": connections.insert(url, RelayConnection { tx })
ConnectInstall(k) ==
  /\ call[k].pc = "install" /\ connLock = NoConn
  /\ connections' = [connections EXCEPT ![call[k].url] = call[k].conn]
  /\ call' = [call EXCEPT ![k].pc = "snap"]
  /\ lost' = [lost EXCEPT ![call[k].url] = FALSE]
  /\ out' = NoOut
  /\ UNCHANGED <<desired, states, backoff, inflight, connLock, connVars,
                 rtask, disc, subh, pubh, cmds, cancelled, streak>>
  /\ UNCHANGED watch
  /\ UNCHANGED evs
  /\ UNCHANGED netVars
  /\ UNCHANGED appVars

\* subs_to_re = states.get(&url).subscriptions.clone()
ConnectSnapshot(k) ==
  /\ call[k].pc = "snap"
  /\ call' = [call EXCEPT ![k].pc = "replay", ![k].todo = SubsOf(call[k].url)]
  /\ out' = NoOut
  /\ UNCHANGED <<poolVars, connVars, rtask, disc, subh, pubh, cmds, ghostVars>>
  /\ UNCHANGED watch
  /\ UNCHANGED evs
  /\ UNCHANGED netVars
  /\ UNCHANGED appVars

\* one iteration of the auto-resubscribe loop: let _ = tx.send(REQ).await
ConnectReplay(k) ==
  /\ call[k].pc = "replay" /\ call[k].todo # {}
  /\ CanSend(call[k].conn)
  /\ \E p \in call[k].todo :
       /\ TrySend(call[k].conn, ReqFrame(p[1], p[2]))
       /\ call' = [call EXCEPT ![k].todo = @ \ {p}]
  /\ out' = NoOut
  /\ UNCHANGED <<poolVars, sock, writer, reader, wire, curl, rtask, disc,
                 subh, pubh, cmds, ghostVars>>
  /\ UNCHANGED watch
  /\ UNCHANGED evs
  /\ UNCHANGED netVars
  /\ UNCHANGED appVars

\* emit relay-status connected; Ok("Connected")
ConnectDone(k) ==
  /\ call[k].pc = "replay" /\ call[k].todo = {}
  /\ CallReturn(k, TRUE)
  /\ out' = [EmitRet("connected", "Connected", call[k].url, call[k].conn)
               EXCEPT !.by = k]
  /\ evs' = [evs EXCEPT ![call[k].conn] = Append(@, "connected")]
  /\ UNCHANGED <<poolVars, connVars, disc, subh, pubh, cmds, ghostVars>>
  /\ UNCHANGED watch
  /\ UNCHANGED netVars
  /\ UNCHANGED appVars

\* ----------------------------------------------------------- writer task
\* while let Some(msg) = rx.recv().await { if write.send(msg).await.is_err() { break } }
WriterSend(c) ==
  /\ writer[c] = "run" /\ chan[c] # <<>>
  /\ IF sock[c] = "open"
     THEN /\ wire' = [wire EXCEPT ![c] = Append(@, Head(chan[c]))]
          /\ chan' = [chan EXCEPT ![c] = Tail(@)]
          /\ sock' = IF Head(chan[c]) = WsClose
                     THEN [sock EXCEPT ![c] = "closed"] ELSE sock
          /\ UNCHANGED writer
     ELSE /\ writer' = [writer EXCEPT ![c] = "dead"]
          /\ chan' = [chan EXCEPT ![c] = <<>>]
          /\ UNCHANGED <<wire, sock>>
  /\ out' = NoOut
  /\ UNCHANGED <<poolVars, reader, curl, reqs, enq, call, rtask, disc, subh,
                 pubh, cmds, ghostVars>>
  /\ UNCHANGED watch
  /\ UNCHANGED evs
  /\ UNCHANGED netVars
  /\ UNCHANGED appVars

\* rx.recv() returns None: every Sender is gone and the queue is empty
WriterEnd(c) ==
  /\ writer[c] = "run" /\ chan[c] = <<>> /\ ~Holders(c)
  /\ writer' = [writer EXCEPT ![c] = "dead"]
  /\ out' = NoOut
  /\ UNCHANGED <<poolVars, sock, reader, chan, enq, wire, curl, reqs, call, rtask,
                 disc, subh, pubh, cmds, ghostVars>>
  /\ UNCHANGED watch
  /\ UNCHANGED evs
  /\ UNCHANGED netVars
  /\ UNCHANGED appVars

\* the peer (or the network) drops the socket
PeerDrop(c) ==
  /\ sock[c] = "open"
  /\ sock' = [sock EXCEPT ![c] = "broken"]
  /\ out' = NoOut
  /\ UNCHANGED <<poolVars, writer, reader, chan, enq, wire, curl, reqs, call, rtask,
                 disc, subh, pubh, cmds, ghostVars>>
  /\ watch' = [watch EXCEPT ![curl[c]] =
                  /\ connections[curl[c]] = c
                  /\ curl[c] \in desired
                  /\ SubsOf(curl[c]) # {}
                  /\ ~ConnectInProgress(curl[c])]
  /\ UNCHANGED evs
  /\ UNCHANGED netVars
  /\ UNCHANGED appVars

\* ----------------------------------------------------------- reader task
\* the items on which the read loop breaks: Ok(Message::Close(_)) ("close"),
\* and Err(_) or None, the end of the stream ("end")
Breaks == {"close", "end"}

\* the next item of the stream breaks the loop: the socket has failed or
\* has been closed, or the item is waiting in the stream
StreamEnds(c) ==
  \/ sock[c] \in {"broken", "closed"}
  \/ inbox[c] # <<>> /\ Head(inbox[c]) \in Breaks

\* the read loop breaks (Close frame, read error, end of stream);
\* "Cleanup on disconnect": emit relay-status disconnected
ReaderExit(c) ==
  /\ reader[c] = "run" /\ StreamEnds(c)
  /\ Cardinality(FreeTasks) > Cardinality(Cleaning)
  /\ backoff[curl[c]] + Cardinality(Cleaning) < MaxExp
  /\ reader' = [reader EXCEPT ![c] = "rm"]
  /\ lost' = [lost EXCEPT ![curl[c]] = @ \/ curl[c] \in desired]
  /\ out' = Emit("disconnected", curl[c], c)
  /\ evs' = [evs EXCEPT ![c] = Append(@, "disconnected")]
  /\ UNCHANGED <<poolVars, sock, writer, chan, enq, wire, curl, reqs, call, rtask,
                 disc, subh, pubh, cmds, cancelled, streak>>
  /\ UNCHANGED watch
  /\ UNCHANGED netVars
  /\ UNCHANGED appVars

\* connections.lock(); connections.remove(&read_url) -- the guard stays held
ReaderRemove(c) ==
  /\ reader[c] = "rm" /\ connLock = NoConn
  /\ connections' = [connections EXCEPT ![curl[c]] = NoConn]
  /\ connLock' = c
  /\ reader' = [reader EXCEPT ![c] = "s_des"]
  /\ out' = NoOut
  /\ UNCHANGED <<desired, states, backoff, inflight, sock, writer, chan, enq, wire,
                 curl, reqs, call, rtask, disc, subh, pubh, cmds, ghostVars>>
  /\ UNCHANGED watch
  /\ UNCHANGED evs
  /\ UNCHANGED netVars
  /\ UNCHANGED appVars

\* a disconnect_relay that keeps its `desired` guard until it has taken
\* `connections` (a broken variant, for C34)
DesiredFree_HeldByDisconnect(c) == disc.pc \notin {"inf", "bk", "rm"}
\* pool_state.desired.lock(): every other critical section on `desired` is
\* over within its step, so the mutex is free when the reader asks for it
DesiredFree(c) == TRUE

\* schedule_reconnect: should_reconnect = desired.contains(&url)
SchedDesired(c) ==
  /\ reader[c] = "s_des" /\ DesiredFree(c)
  /\ IF curl[c] \in desired
     THEN /\ reader' = [reader EXCEPT ![c] = "s_inf"]
          /\ UNCHANGED connLock
     ELSE /\ reader' = [reader EXCEPT ![c] = "dead"]
          /\ connLock' = NoConn
  /\ out' = NoOut
  /\ UNCHANGED <<desired, connections, states, backoff, inflight, sock, writer,
                 chan, enq, wire, curl, reqs, call, rtask, disc, subh, pubh, cmds,
                 ghostVars>>
  /\ UNCHANGED watch
  /\ UNCHANGED evs
  /\ UNCHANGED netVars
  /\ UNCHANGED appVars

\* schedule_reconnect: if inflight.contains(&url) { return } inflight.insert(url)
SchedInflight(c) ==
  /\ reader[c] = "s_inf"
  /\ IF curl[c] \in inflight
     THEN /\ reader' = [reader EXCEPT ![c] = "dead"]
          /\ connLock' = NoConn
          /\ UNCHANGED inflight
     ELSE /\ inflight' = inflight \cup {curl[c]}
          /\ reader' = [reader EXCEPT ![c] = "s_bk"]
          /\ UNCHANGED connLock
  /\ out' = NoOut
  /\ UNCHANGED <<desired, connections, states, backoff, sock, writer, chan, enq,
                 wire, curl, reqs, call, rtask, disc, subh, pubh, cmds,
                 ghostVars>>
  /\ UNCHANGED watch
  /\ UNCHANGED evs
  /\ UNCHANGED netVars
  /\ UNCHANGED appVars

\* next = current.saturating_add(1)
NextExp(current) == current + 1

\* schedule_reconnect: bump the exponent, compute the delay, spawn the task;
\* the reader task ends and its `connections` guard is dropped
SchedSpawn(c) ==
  /\ reader[c] = "s_bk"
  /\ LET u == curl[c]
         next_exp == NextExp(backoff[u])
         t == CHOOSE x \in FreeTasks : \A y \in FreeTasks : x = y \/ x # "t2"
     IN  /\ backoff' = [backoff EXCEPT ![u] = next_exp]
         /\ rtask' = [rtask EXCEPT ![t] = [pc |-> "sleep", url |-> u,
                                          exp |-> next_exp,
                                          delay |-> compute_backoff_delay(next_exp),
                                          nth |-> streak[u] + 1,
                                          late |-> cancelled[u]]]
         /\ streak' = [streak EXCEPT ![u] = @ + 1]
  /\ reader' = [reader EXCEPT ![c] = "dead"]
  /\ connLock' = NoConn
  /\ out' = NoOut
  /\ UNCHANGED <<desired, connections, states, inflight, sock, writer, chan, enq,
                 wire, curl, reqs, call, disc, subh, pubh, cmds, lost, cancelled>>
  /\ UNCHANGED watch
  /\ UNCHANGED evs
  /\ UNCHANGED netVars
  /\ UNCHANGED appVars

\* ------------------------------------------- frames from the relay
\* what read_stream.next() yields: a text frame that is JSON, a text frame
\* that is not, a frame that is no text (binary, ping, pong), or one of
\* Breaks
FrameKinds == {"json", "text", "other"} \cup Breaks

\* the socket of connection c gets its next item, one of at most n; nothing
\* follows an item of Breaks
PeerSend(c, f, n) ==
  /\ sock[c] = "open" /\ reader[c] = "run"
  /\ nsent < n
  /\ \A i \in 1..Len(inbox[c]) : inbox[c][i] \notin Breaks
  /\ inbox' = [inbox EXCEPT ![c] = Append(@, f)]
  /\ nsent' = nsent + 1
  /\ out' = NoOut
  /\ UNCHANGED <<poolVars, connVars, evs, call, rtask, disc, subh, pubh, cmds,
                 ghostVars, watch, netVars, seen, revs>>
  /\ UNCHANGED <<persistVars, walletVars, uploadVars, supVars>>

\* a reader that forwards every text frame (a broken variant, for C31)
ParsesAsJson_AnyText(f) == f \in {"json", "text"}
\* Ok(Message::Text(text)) with serde_json::from_str::<Value>(&text) Ok
ParsesAsJson(f) == f = "json"

\* one iteration of the read loop on a frame that is no Close: a text frame
\* that parses is emitted as relay-event, anything else is dropped
ReaderRecv(c) ==
  /\ reader[c] = "run"
  /\ inbox[c] # <<>> /\ Head(inbox[c]) \notin Breaks
  /\ inbox' = [inbox EXCEPT ![c] = Tail(@)]
  /\ seen' = [seen EXCEPT ![c] = Append(@, Head(inbox[c]))]
  /\ IF ParsesAsJson(Head(inbox[c]))
       THEN /\ revs' = [revs EXCEPT ![c] = @ + 1]
            /\ out' = Emit("relay-event", curl[c], c)
       ELSE /\ out' = NoOut
            /\ UNCHANGED revs
  /\ UNCHANGED <<poolVars, connVars, evs, call, rtask, disc, subh, pubh, cmds,
                 ghostVars, watch, netVars, nsent>>
  /\ UNCHANGED <<persistVars, walletVars, uploadVars, supVars>>

\* -------------------------------------------------------- reconnect task
\* sleep(delay) is over: still_desired = desired.contains(&url)
TaskWake(t) ==
  /\ rtask[t].pc = "sleep"
  /\ IF rtask[t].url \in desired
     THEN /\ rtask' = [rtask EXCEPT ![t].pc = "call"]
          /\ call' = [call EXCEPT ![t] = [IdleCall EXCEPT !.pc = "enter",
                                                         !.url = rtask[t].url]]
     ELSE /\ rtask' = [rtask EXCEPT ![t].pc = "clri"]
          /\ UNCHANGED call
  /\ out' = NoOut
  /\ UNCHANGED <<poolVars, connVars, disc, subh, pubh, cmds, ghostVars>>
  /\ UNCHANGED watch
  /\ UNCHANGED evs
  /\ UNCHANGED netVars
  /\ UNCHANGED appVars

\* connect_result.is_ok(): backoff.remove(&url)
TaskClearBackoff(t) ==
  /\ rtask[t].pc = "clrb"
  /\ backoff' = [backoff EXCEPT ![rtask[t].url] = 0]
  /\ rtask' = [rtask EXCEPT ![t].pc = "clri"]
  /\ streak' = [streak EXCEPT ![rtask[t].url] = 0]
  /\ out' = NoOut
  /\ UNCHANGED <<desired, connections, states, inflight, connLock, connVars,
                 call, disc, subh, pubh, cmds, lost, cancelled>>
  /\ UNCHANGED watch
  /\ UNCHANGED evs
  /\ UNCHANGED netVars
  /\ UNCHANGED appVars

\* inflight2.remove(&url); the task ends
TaskClearInflight(t) ==
  /\ rtask[t].pc = "clri"
  /\ inflight' = inflight \ {rtask[t].url}
  /\ rtask' = [rtask EXCEPT ![t] = IdleTask]
  /\ out' = NoOut
  /\ UNCHANGED <<desired, connections, states, backoff, connLock, connVars,
                 call, disc, subh, pubh, cmds, ghostVars>>
  /\ UNCHANGED watch
  /\ UNCHANGED evs
  /\ UNCHANGED netVars
  /\ UNCHANGED appVars

\* ------------------------------------------------------ disconnect_relay
NoUiCall(u) == \A k \in UiCalls : ~(call[k].pc # "idle" /\ call[k].url = u)

\* UI issues disconnect_relay(u), one of at most n commands: desired.remove(&url)
DisconnectCmd(u, n) ==
  /\ disc.pc = "idle" /\ cmds < n
  /\ cmds' = cmds + 1
  /\ desired' = desired \ {u}
  /\ disc' = [IdleDisc EXCEPT !.pc = "inf", !.url = u, !.alone = NoUiCall(u)]
  /\ lost' = [lost EXCEPT ![u] = FALSE]
  /\ out' = NoOut
  /\ UNCHANGED <<connections, states, backoff, inflight, connLock, connVars,
                 call, rtask, subh, pubh, cancelled, streak>>
  /\ Unwatch(u)
  /\ UNCHANGED evs
  /\ UNCHANGED netVars
  /\ UNCHANGED appVars

DiscDesired(u) == DisconnectCmd(u, MaxCmds)

\* inflight.remove(&url)
DiscInflight ==
  /\ disc.pc = "inf"
  /\ inflight' = inflight \ {disc.url}
  /\ disc' = [disc EXCEPT !.pc = "bk"]
  /\ out' = NoOut
  /\ UNCHANGED <<desired, connections, states, backoff, connLock, connVars,
                 call, rtask, subh, pubh, cmds, ghostVars>>
  /\ UNCHANGED watch
  /\ UNCHANGED evs
  /\ UNCHANGED netVars
  /\ UNCHANGED appVars

\* backoff.remove(&url)
DiscBackoff ==
  /\ disc.pc = "bk"
  /\ backoff' = [backoff EXCEPT ![disc.url] = 0]
  /\ disc' = [disc EXCEPT !.pc = "rm"]
  /\ streak' = [streak EXCEPT ![disc.url] = 0]
  /\ out' = NoOut
  /\ UNCHANGED <<desired, connections, states, inflight, connLock, connVars,
                 call, rtask, subh, pubh, cmds, lost, cancelled>>
  /\ UNCHANGED watch
  /\ UNCHANGED evs
  /\ UNCHANGED netVars
  /\ UNCHANGED appVars

\* tx = connections.remove(&url).map(|c| c.tx); Err("Not connected") if None
DiscRemove ==
  /\ disc.pc = "rm" /\ connLock = NoConn
  /\ connections' = [connections EXCEPT ![disc.url] = NoConn]
  /\ IF connections[disc.url] # NoConn
     THEN /\ disc' = [disc EXCEPT !.pc = "send", !.tx = connections[disc.url]]
          /\ out' = NoOut
          /\ UNCHANGED ghostVars
     ELSE /\ disc' = IdleDisc
          /\ out' = Ret("Not connected", disc.url, NoConn)
          /\ cancelled' = [cancelled EXCEPT ![disc.url] = disc.alone]
          /\ UNCHANGED <<lost, streak>>
  /\ UNCHANGED <<desired, states, backoff, inflight, connLock, connVars, call,
                 rtask, subh, pubh, cmds>>
  /\ UNCHANGED watch
  /\ UNCHANGED evs
  /\ UNCHANGED netVars
  /\ UNCHANGED appVars

\* let _ = tx.send(Message::Close(None)).await; emit disconnected; Ok
DiscSend ==
  /\ disc.pc = "send" /\ CanSend(disc.tx)
  /\ TrySend(disc.tx, WsClose)
  /\ disc' = IdleDisc
  /\ out' = EmitRet("disconnected", "Disconnected", disc.url, disc.tx)
  /\ evs' = [evs EXCEPT ![disc.tx] = Append(@, "disconnected")]
  /\ cancelled' = [cancelled EXCEPT ![disc.url] = disc.alone]
  /\ UNCHANGED <<poolVars, sock, writer, reader, wire, curl, call, rtask, subh,
                 pubh, cmds, lost, streak>>
  /\ UNCHANGED watch
  /\ UNCHANGED netVars
  /\ UNCHANGED appVars

\* ----------------------------------- subscribe_relay / unsubscribe_relay
\* an insert that replaces the whole subscription map (a broken variant, for C10)
SubscribeInsert_Replace(st, sid, f) ==
  [s \in SubIds |-> IF s = sid THEN f ELSE NoFilter]
\* relay_state.subscriptions.insert(sub_id, filter)
SubscribeInsert(st, sid, f) == [st EXCEPT ![sid] = f]
\* a removal that removes nothing (a broken variant, for C16)
UnsubscribeRemove_Keep(st, sid) == st
\* relay_state.subscriptions.remove(&sub_id)
UnsubscribeRemove(st, sid) == [st EXCEPT ![sid] = NoFilter]

\* UI issues subscribe_relay(u, sid, f), one of at most n commands:
\* "1. Update persistent state"
SubscribeCmd(u, sid, f, n) ==
  /\ subh.pc = "idle" /\ cmds < n
  /\ cmds' = cmds + 1
  /\ states' = [states EXCEPT ![u] = SubscribeInsert(@, sid, f)]
  /\ subh' = [pc |-> "get", kind |-> "sub", url |-> u, sid |-> sid, f |-> f,
              tx |-> NoConn,
              prev |-> IF \A s \in SubIds \ {sid} : states[u][s] = NoFilter
                       THEN <<u, sid>> ELSE NoPrev]
  /\ out' = NoOut
  /\ UNCHANGED <<desired, connections, backoff, inflight, connLock, connVars,
                 call, rtask, disc, pubh, ghostVars>>
  /\ Unwatch(u)
  /\ UNCHANGED evs
  /\ UNCHANGED netVars
  /\ UNCHANGED appVars

Subscribe(u, sid, f) == SubscribeCmd(u, sid, f, MaxCmds)

\* UI issues unsubscribe_relay(u, sid), one of at most n commands:
\* "1. Remove from persistent state"
UnsubscribeCmd(u, sid, n) ==
  /\ subh.pc = "idle" /\ cmds < n
  /\ cmds' = cmds + 1
  /\ states' = [states EXCEPT ![u] = UnsubscribeRemove(@, sid)]
  /\ subh' = [pc |-> "get", kind |-> "unsub", url |-> u, sid |-> sid,
              f |-> "-", tx |-> NoConn, prev |-> subh.prev]
  /\ out' = NoOut
  /\ UNCHANGED <<desired, connections, backoff, inflight, connLock, connVars,
                 call, rtask, disc, pubh, ghostVars>>
  /\ Unwatch(u)
  /\ UNCHANGED evs
  /\ UNCHANGED netVars
  /\ UNCHANGED appVars

Unsubscribe(u, sid) == UnsubscribeCmd(u, sid, MaxCmds)

\* the handler returns
SubReturn ==
  [IdleSub EXCEPT !.prev = IF subh.kind = "sub" THEN subh.prev ELSE NoPrev]

\* "2. Send REQ / CLOSE if connected": tx = connections.get(&url).tx.clone()
SubGetTx ==
  /\ subh.pc = "get" /\ connLock = NoConn
  /\ IF connections[subh.url] # NoConn
     THEN /\ subh' = [subh EXCEPT !.pc = "send", !.tx = connections[subh.url]]
          /\ out' = NoOut
     ELSE /\ subh' = SubReturn
          /\ out' = Ret(IF subh.kind = "sub" THEN "Subscribed (persistent, offline)"
                        ELSE "Unsubscribed (persistent, offline)", subh.url, NoConn)
  /\ UNCHANGED <<poolVars, connVars, call, rtask, disc, pubh, cmds, ghostVars>>
  /\ UNCHANGED watch
  /\ UNCHANGED evs
  /\ UNCHANGED netVars
  /\ UNCHANGED appVars

\* tx.send(frame).await.map_err(..)?
SubSend ==
  /\ subh.pc = "send" /\ CanSend(subh.tx)
  /\ TrySend(subh.tx, IF subh.kind = "sub" THEN ReqFrame(subh.sid, subh.f)
                      ELSE CloseSubFrame(subh.sid))
  /\ subh' = SubReturn
  /\ out' = Ret(IF ChanClosed(subh.tx) THEN "Err"
                ELSE IF subh.kind = "sub" THEN "Subscribed (active)"
                ELSE "Unsubscribed (active)", subh.url, subh.tx)
  /\ UNCHANGED <<poolVars, sock, writer, reader, wire, curl, call, rtask, disc,
                 pubh, cmds, ghostVars>>
  /\ UNCHANGED watch
  /\ UNCHANGED evs
  /\ UNCHANGED netVars
  /\ UNCHANGED appVars

\* ---------------------------------- publish_event / send_relay_message
\* UI issues publish_event(u, e) or send_relay_message(u, text), one of at
\* most n commands: look up tx
PublishCmd(u, kind, n) ==
  /\ pubh.pc = "idle" /\ cmds < n /\ connLock = NoConn
  /\ cmds' = cmds + 1
  /\ IF connections[u] # NoConn
     THEN /\ pubh' = [pc |-> "send", kind |-> kind, url |-> u, tx |-> connections[u]]
          /\ out' = NoOut
     ELSE /\ pubh' = IdlePub
          /\ out' = [Ret("Not connected", u, NoConn) EXCEPT !.cmd = kind]
  /\ UNCHANGED <<poolVars, connVars, call, rtask, disc, subh, ghostVars>>
  /\ Unwatch(u)
  /\ UNCHANGED evs
  /\ UNCHANGED netVars
  /\ UNCHANGED appVars

Publish(u, kind) == PublishCmd(u, kind, MaxCmds)

\* publish_event that sends event_json as it is (a broken variant, for C15)
PublishFrame_Unwrapped(kind) == RawFrame
\* publish_event wraps the event: json!(["EVENT", event_json]);
\* send_relay_message sends the text as it is
PublishFrame(kind) == IF kind = "publish" THEN EventFrame ELSE RawFrame

\* tx.send(Message::Text(..)).await.map_err(..)?
PubSend ==
  /\ pubh.pc = "send" /\ CanSend(pubh.tx)
  /\ TrySend(pubh.tx, PublishFrame(pubh.kind))
  /\ pubh' = IdlePub
  /\ out' = [Ret(IF ChanClosed(pubh.tx) THEN "Err"
                 ELSE IF pubh.kind = "publish" THEN "Published" ELSE "Sent",
                 pubh.url, pubh.tx) EXCEPT !.cmd = pubh.kind]
  /\ UNCHANGED <<poolVars, sock, writer, reader, wire, curl, call, rtask, disc,
                 subh, cmds, ghostVars>>
  /\ UNCHANGED watch
  /\ UNCHANGED evs
  /\ UNCHANGED netVars
  /\ UNCHANGED appVars

\* ----------------------------------- save_tor_settings / NetworkRuntime
\* save_tor_settings(enable_tor, proxy_url): settings = state.settings.lock()
\* (held until the command returns); settings.enable_tor = e;
\* settings.proxy_url = p; then NativeNetworkRuntime::set: tor_guard =
\* enable_tor.lock(); *tor_guard = e
SaveTorSettings(e, p, n) ==
  /\ seth.pc = "idle" /\ cmds < n
  /\ cmds' = cmds + 1
  /\ tsettings' = <<e, p>>
  /\ enable_tor' = e
  /\ seth' = [pc |-> "proxy", tor |-> e, url |-> p, old |-> tsettings]
  /\ cfgs' = cfgs \cup {<<e, p>>}
  /\ out' = NoOut
  /\ UNCHANGED <<poolVars, connVars, evs, call, rtask, disc, subh, pubh,
                 ghostVars, watch, proxy_url>>
  /\ UNCHANGED <<tfile, walletVars, uploadVars, supVars, rdVars>>

\* set: proxy_guard = proxy_url.lock(); *proxy_guard = p; both guards drop
SetProxy ==
  /\ seth.pc = "proxy"
  /\ proxy_url' = seth.url
  /\ seth' = [seth EXCEPT !.pc = "write"]
  /\ out' = NoOut
  /\ UNCHANGED <<poolVars, connVars, evs, call, rtask, disc, subh, pubh, cmds,
                 ghostVars, watch, enable_tor, cfgs>>
  /\ UNCHANGED appVars

\* std::fs::write(path, json) of the settings
WriteFile(ok, pair) == IF ok THEN pair ELSE tfile

\* save_tor_settings: app_data_dir, create_dir_all, to_string and fs::write,
\* each with `?` (ok = none of them fails); then the settings guard drops and
\* the command returns
SaveWrite(ok) ==
  /\ seth.pc = "write"
  /\ tfile' = WriteFile(ok, <<seth.tor, seth.url>>)
  /\ tret' = [cmd |-> "save", ret |-> IF ok THEN "Ok" ELSE "Err",
              val |-> <<seth.tor, seth.url>>]
  /\ seth' = IdleSet
  /\ UNCHANGED <<relayVars, cmds, enable_tor, proxy_url, cfgs, tsettings>>
  /\ UNCHANGED <<walletVars, uploadVars, child, proc, rx, tevs, suph>>

\* ------------------------------------------------- Session / SecretStore
\* the secret a bech32 string decodes to (NoKey = a decode error)
Bech32Secret(x) == IF x = "nsec1" THEN "k1" ELSE NoKey
\* the secret a hex string decodes to (NoKey = a decode error)
HexSecret(x) == IF x = "hex2" THEN "k2" ELSE NoKey
\* Keys::parse: a hex secret, else a bech32 one
KeysParse(x) == IF HexSecret(x) # NoKey THEN HexSecret(x) ELSE Bech32Secret(x)
\* SessionState::set_keys: Keys::parse for "nsec...", SecretKey::from_hex else
set_keys(x) == IF x = "nsec1" THEN KeysParse(x) ELSE HexSecret(x)
\* a hydration that parses the stored string and drops the keys (a broken
\* variant, for C22)
Hydrated_Dropped(k) == skeys
\* *session_keys = Some(keys), unless the string did not parse
Hydrated(k) == IF k = NoKey THEN skeys ELSE k
\* keys.public_key()
PubOf(k) == IF k = "k1" THEN "pk1" ELSE IF k = "k2" THEN "pk2" ELSE "-"

KeyChanging == {"import", "logout", "init", "clear"}
WRunning(w) == wh[w].pc # "idle"
OthersIdle(w) == \A v \in WSlots \ {w} : ~WRunning(v)
WFirst(op, arg) ==
  CASE op = "import" -> IF KeysParse(arg) = NoKey THEN "fail" ELSE "set"
    [] op = "logout" -> "clear"
    [] op = "init" -> "set"
    [] op = "clear" -> "clear"
    [] OTHER -> "ens"

\* UI invokes a wallet / session command, one of at most n commands
\* (import_native_nsec starts with Keys::parse of its argument)
WInvoke(w, op, arg, n) ==
  /\ ~WRunning(w) /\ cmds < n
  /\ arg \in (IF op \in {"import", "init"} THEN KeyInputs ELSE {"-"})
  /\ cmds' = cmds + 1
  /\ wh' = [v \in WSlots |->
             IF v = w
               THEN [IdleW EXCEPT !.pc = WFirst(op, arg), !.op = op,
                       !.arg = arg, !.alone = OthersIdle(w), !.s0 = skeys,
                       !.k0 = keychain, !.r0 = kreads, !.after = wlast,
                       !.solo = \A x \in WSlots \ {w} :
                                  wh[x].op \notin KeyChanging]
               ELSE [wh[v] EXCEPT !.alone = FALSE,
                       !.solo = @ /\ op \notin KeyChanging]]
  /\ wlast' = IF op \in KeyChanging THEN NoLast ELSE wlast
  /\ UNCHANGED <<skeys, keychain, wret, kreads>>
  /\ UNCHANGED <<relayVars, netVars, persistVars, uploadVars, supVars>>

\* the command of slot w returns (ret, val)
WReturn(w, ret, val) ==
  /\ wret' = [op |-> wh[w].op, arg |-> wh[w].arg, ret |-> ret, val |-> val,
              alone |-> wh[w].alone, s0 |-> wh[w].s0, k0 |-> wh[w].k0]
  /\ wh' = [wh EXCEPT ![w] = IdleW]
  /\ wlast' =
       IF wh[w].op \in {"import", "logout"} /\ ret = "Ok" /\ wh[w].solo
         THEN <<wh[w].op, wh[w].arg>>
         ELSE wlast

\* import_native_nsec: Keys::parse(nsec) fails
ImportBad(w) ==
  /\ wh[w].pc = "fail"
  /\ WReturn(w, "Err", "-")
  /\ UNCHANGED <<skeys, keychain, kreads, cmds>>
  /\ UNCHANGED <<relayVars, netVars, persistVars, uploadVars, supVars>>

\* import_native_nsec / init_native_session: session.set_keys(nsec).await;
\* init_native_session returns here
WSetKeys(w) ==
  /\ wh[w].pc = "set"
  /\ LET k == set_keys(wh[w].arg) IN
       /\ skeys' = IF k = NoKey THEN skeys ELSE k
       /\ IF wh[w].op = "init"
            THEN WReturn(w, "Ok", IF k = NoKey THEN "failure" ELSE PubOf(k))
            ELSE IF k = NoKey
            THEN WReturn(w, "Err", "-")
            ELSE /\ wh' = [wh EXCEPT ![w].pc = "store", ![w].keys = k]
                 /\ UNCHANGED <<wret, wlast>>
  /\ UNCHANGED <<keychain, kreads, cmds>>
  /\ UNCHANGED <<relayVars, netVars, persistVars, uploadVars, supVars>>

\* import_native_nsec: Entry::new and entry.set_password(nsec), each with `?`
\* (ok = neither fails); Ok(keys.public_key()) for the keys parsed at entry
ImportStore(w, ok) ==
  /\ wh[w].pc = "store"
  /\ keychain' = IF ok THEN wh[w].arg ELSE keychain
  /\ WReturn(w, IF ok THEN "Ok" ELSE "Err",
              IF ok THEN PubOf(KeysParse(wh[w].arg)) ELSE "-")
  /\ UNCHANGED <<skeys, kreads, cmds>>
  /\ UNCHANGED <<relayVars, netVars, persistVars, uploadVars, supVars>>

\* logout_native / clear_native_session: session.clear().await;
\* clear_native_session returns here
WClear(w) ==
  /\ wh[w].pc = "clear"
  /\ skeys' = NoKey
  /\ IF wh[w].op = "clear"
       THEN WReturn(w, "Ok", "-")
       ELSE /\ wh' = [wh EXCEPT ![w].pc = "del"]
            /\ UNCHANGED <<wret, wlast>>
  /\ UNCHANGED <<keychain, kreads, cmds>>
  /\ UNCHANGED <<relayVars, netVars, persistVars, uploadVars, supVars>>

\* logout_native: Entry::new and entry.delete_credential(); Ok and NoEntry
\* return Ok, any other error (ok = FALSE) is returned
LogoutDelete(w, ok) ==
  /\ wh[w].pc = "del"
  /\ keychain' = IF ok THEN NoKey ELSE keychain
  /\ WReturn(w, IF ok THEN "Ok" ELSE "Err", "-")
  /\ UNCHANGED <<skeys, kreads, cmds>>
  /\ UNCHANGED <<relayVars, netVars, persistVars, uploadVars, supVars>>

\* what get_native_npub / sign_event_native return for ensure_session's result
\* (k = NoKey: ensure_session returned an error)
EnsureResult(op, k) ==
  IF op = "get"
    THEN <<"Ok", IF k = NoKey THEN "None" ELSE PubOf(k)>>
    ELSE IF k = NoKey THEN <<"Err", "-">> ELSE <<"Ok", <<"sig", k>>>>
WEnsured(w, k) ==
  WReturn(w, EnsureResult(wh[w].op, k)[1], EnsureResult(wh[w].op, k)[2])

\* ensure_session: session.get_keys().await; Some(keys) is returned
EnsureGet(w) ==
  /\ wh[w].pc = "ens"
  /\ IF skeys # NoKey
       THEN WEnsured(w, skeys)
       ELSE /\ wh' = [wh EXCEPT ![w].pc = "read"]
            /\ UNCHANGED <<wret, wlast>>
  /\ UNCHANGED <<skeys, keychain, kreads, cmds>>
  /\ UNCHANGED <<relayVars, netVars, persistVars, uploadVars, supVars>>

\* ensure_session: Entry::new, entry.get_password(); the read yields the
\* entry as it is: NoEntry is an error of ensure_session
EnsureRead(w) ==
  /\ wh[w].pc = "read"
  /\ kreads' = Bump(kreads)
  /\ IF keychain = NoKey
       THEN WEnsured(w, NoKey)
       ELSE /\ wh' = [wh EXCEPT ![w].pc = "hyd", ![w].got = keychain]
            /\ UNCHANGED <<wret, wlast>>
  /\ UNCHANGED <<skeys, keychain, cmds>>
  /\ UNCHANGED <<relayVars, netVars, persistVars, uploadVars, supVars>>

\* ensure_session: session.set_keys(nsec).await on the string read
EnsureHydrate(w) ==
  /\ wh[w].pc = "hyd"
  /\ LET k == set_keys(wh[w].got) IN
       /\ skeys' = Hydrated(k)
       /\ IF k = NoKey
            THEN WEnsured(w, NoKey)
            ELSE /\ wh' = [wh EXCEPT ![w].pc = "reget"]
                 /\ UNCHANGED <<wret, wlast>>
  /\ UNCHANGED <<keychain, kreads, cmds>>
  /\ UNCHANGED <<relayVars, netVars, persistVars, uploadVars, supVars>>

\* ensure_session: session.get_keys().await.ok_or("Failed to hydrate session")
EnsureReget(w) ==
  /\ wh[w].pc = "reget"
  /\ WEnsured(w, skeys)
  /\ UNCHANGED <<skeys, keychain, kreads, cmds>>
  /\ UNCHANGED <<relayVars, netVars, persistVars, uploadVars, supVars>>

WalletOps == {"import", "logout", "init", "clear", "get", "sign"}

WalletNext ==
  \/ \E w \in WSlots, op \in WalletOps, arg \in KeyInputs \cup {"-"} :
       WInvoke(w, op, arg, MaxWCmds)
  \/ \E w \in WSlots : ImportBad(w)
  \/ \E w \in WSlots : WSetKeys(w)
  \/ \E w \in WSlots, ok \in BOOLEAN : ImportStore(w, ok)
  \/ \E w \in WSlots : WClear(w)
  \/ \E w \in WSlots, ok \in BOOLEAN : LogoutDelete(w, ok)
  \/ \E w \in WSlots : EnsureGet(w)
  \/ \E w \in WSlots : EnsureRead(w)
  \/ \E w \in WSlots : EnsureHydrate(w)
  \/ \E w \in WSlots : EnsureReget(w)

SpecWallet == Init /\ [][WalletNext]_vars

\* ------------------------------------------------------------- Uploader
\* a response body: a phrase and the letter case it is written in
Bodies == {<<"no files", "mixed">>, <<"no files", "lower">>, <<"other", "lower">>}
to_lowercase(b) == <<b[1], "lower">>
\* body.to_lowercase().contains("no files")
MentionsNoFiles(b) == to_lowercase(b) = <<"no files", "lower">>

\* what one attempt gets: st = 0 is an Err of send_multipart_request after the
\* request was sent (a network error); json: what the body parses to ("url":
\* an object with a url, "nourl": one without, "error": status "error" with
\* the body as message, "bad": no JSON); loc: the Location header
Resp(st, body, json, loc) == [st |-> st, body |-> body, json |-> json, loc |-> loc]
Responses ==
  {Resp(200, <<"other", "lower">>, j, "-") : j \in {"url", "nourl", "bad"}}
  \cup {Resp(200, b, "error", "-") : b \in Bodies}
  \cup {Resp(400, b, "-", "-") : b \in Bodies}
  \cup {Resp(302, <<"other", "lower">>, "-", "loc"),
        Resp(500, <<"no files", "lower">>, "-", "-"),
        Resp(0, <<"other", "lower">>, "-", "-")}
\* Part::mime_str fails: the attempt ends before a request is sent
MimeErr == Resp(0, <<"other", "lower">>, "mime", "-")

\* a retry order with the last two names swapped (a broken variant, for C25)
field_names_Swapped == <<"file", "files", "files[]">>
\* let field_names = vec!["file", "files[]", "files"]
field_names == <<"file", "files[]", "files">>

\* status.is_success()
IsSuccess(st) == st >= 200 /\ st < 300
\* the attempt returns a "success" UploadResponse
YieldsSuccess(r) == IsSuccess(r.st) /\ r.json \in {"url", "nourl"}
\* what send_multipart_request hands back for r: Ok((status, text)), or an
\* Err (st = 0)
send_multipart_request(r) == [st |-> r.st, body |-> r.body, json |-> r.json]
\* last_error after the attempt: "Network Error: ..", "HTTP {status}: {body}",
\* "JSON Parse Error: .." or "API Error: {message}"
LastError(got) ==
  IF got.st = 0 THEN [NoErr EXCEPT !.kind = "Network Error"]
  ELSE IF ~IsSuccess(got.st)
    THEN [kind |-> "HTTP", st |-> got.st, body |-> got.body]
  ELSE IF got.json = "bad" THEN [NoErr EXCEPT !.kind = "JSON Parse Error"]
  ELSE [NoErr EXCEPT !.kind = "API Error", !.body = got.body]

UpReturn(ret, status, code, message, h) ==
  /\ uret' = [ret |-> ret, status |-> status, code |-> code,
              message |-> message, h |-> h]
  /\ up' = IdleUp

\* UI invokes nip96_upload_v2(api_url, file_bytes, file_name, content_type),
\* one of at most n commands
UploadCmd(bytes, ctype, n) ==
  /\ up.pc = "idle" /\ cmds < n
  /\ cmds' = cmds + 1
  /\ up' = [IdleUp EXCEPT !.pc = "empty", !.bytes = bytes, !.ctype = ctype,
              !.s0 = skeys, !.r0 = kreads]
  /\ UNCHANGED uret
  /\ UNCHANGED <<relayVars, netVars, persistVars, walletVars, supVars>>

\* a check that lets zero bytes through (a broken variant, for C24)
is_empty_Never(bytes) == FALSE
\* file_bytes.is_empty()
is_empty(bytes) == bytes = "zero"

\* nip96_upload_v2: if file_bytes.is_empty() { return Ok(error "Empty file
\* bytes") }
UpCheckEmpty ==
  /\ up.pc = "empty"
  /\ IF is_empty(up.bytes)
       THEN UpReturn("Ok", "error", "-", Msg("Empty file bytes", NoErr), up)
       ELSE /\ up' = [up EXCEPT !.pc = "session"]
            /\ UNCHANGED uret
  /\ UNCHANGED cmds
  /\ UNCHANGED <<relayVars, netVars, persistVars, walletVars, supVars>>

\* session.get_keys().await.ok_or(NO_SESSION)?
UpSession ==
  /\ up.pc = "session"
  /\ IF skeys = NoKey
       THEN UpReturn("Err", "-", "NO_SESSION", NoMsg, up)
       ELSE /\ up' = [up EXCEPT !.pc = "auth", !.keys = skeys]
            /\ UNCHANGED uret
  /\ UNCHANGED cmds
  /\ UNCHANGED <<relayVars, netVars, persistVars, walletVars, supVars>>

\* generate_nip98_auth(...).await: None (the signing failed, ok = FALSE) is
\* AUTH_ERROR
UpAuth(ok) ==
  /\ up.pc = "auth"
  /\ IF ok
       THEN /\ up' = [up EXCEPT !.pc = "client"]
            /\ UNCHANGED uret
       ELSE UpReturn("Err", "-", "AUTH_ERROR", NoMsg, up)
  /\ UNCHANGED cmds
  /\ UNCHANGED <<relayVars, netVars, persistVars, walletVars, supVars>>

\* build_reqwest_client: redirect(Policy::none()); is_tor_enabled()
UpClient ==
  /\ up.pc = "client" /\ TorLockFree
  /\ up' = IF enable_tor THEN [up EXCEPT !.pc = "proxy"]
            ELSE [up EXCEPT !.pc = "post", !.client = "direct"]
  /\ UNCHANGED <<uret, cmds>>
  /\ UNCHANGED <<relayVars, netVars, persistVars, walletVars, supVars>>

\* build_reqwest_client: Proxy::all(get_proxy_url())? and builder.build()?
\* (ok = neither fails); an error is NETWORK_ERROR
UpClientProxy(ok) ==
  /\ up.pc = "proxy"
  /\ IF ok
       THEN /\ up' = [up EXCEPT !.pc = "post", !.client = proxy_url]
            /\ UNCHANGED uret
       ELSE UpReturn("Err", "-", "NETWORK_ERROR", NoMsg, up)
  /\ UNCHANGED cmds
  /\ UNCHANGED <<relayVars, netVars, persistVars, walletVars, supVars>>

\* one iteration of `for field_name in field_names`: send_multipart_request
\* with the next field name gets r (MimeErr: nothing was sent), then the
\* match on the result; the last iteration falls out of the loop into
\* "All attempts failed"
UpAttempt(r) ==
  /\ up.pc = "post"
  /\ (r = MimeErr) = (up.ctype = "bad")
  /\ LET h == [up EXCEPT
                  !.posts = IF r = MimeErr THEN @
                            ELSE Append(@, field_names[up.next]),
                  !.resps = Append(@, r),
                  !.next = @ + 1,
                  !.last_error = IF YieldsSuccess(r) THEN @
                                 ELSE LastError(send_multipart_request(r))]
     IN
       IF YieldsSuccess(r)
         THEN UpReturn("Ok", "success", "-",
                       IF r.json = "url" THEN NoMsg
                       ELSE Msg("No URL in response", NoErr),
                       h)
         ELSE IF up.next < Len(field_names)
         THEN /\ up' = h
              /\ UNCHANGED uret
         ELSE UpReturn("Ok", "error", "-",
                       Msg("All attempts failed", h.last_error), h)
  /\ UNCHANGED cmds
  /\ UNCHANGED <<relayVars, netVars, persistVars, walletVars, supVars>>

\* no command of the model is running
AllIdle ==
  /\ up.pc = "idle" /\ seth.pc = "idle"
  /\ \A w \in WSlots : ~WRunning(w)

UpUpload(bytes, ctype) == AllIdle /\ UploadCmd(bytes, ctype, MaxUpCmds)
UpWallet(op, arg) == AllIdle /\ WInvoke("w1", op, arg, MaxUpCmds)
UpSave(e, p) == AllIdle /\ SaveTorSettings(e, p, MaxUpCmds)

UploadNext ==
  \/ \E bytes \in {"zero", "data"}, ctype \in {"ok", "bad"} :
       UpUpload(bytes, ctype)
  \/ \E op \in {"import", "clear"}, arg \in {"nsec1", "bad", "-"} :
       UpWallet(op, arg)
  \/ \E e \in BOOLEAN : UpSave(e, DefaultProxy)
  \/ SetProxy
  \/ \E ok \in BOOLEAN : SaveWrite(ok)
  \/ ImportBad("w1")
  \/ WSetKeys("w1")
  \/ \E ok \in BOOLEAN : ImportStore("w1", ok)
  \/ WClear("w1")
  \/ UpCheckEmpty
  \/ UpSession
  \/ \E ok \in BOOLEAN : UpAuth(ok)
  \/ UpClient
  \/ \E ok \in BOOLEAN : UpClientProxy(ok)
  \/ \E r \in Responses \cup {MimeErr} : UpAttempt(r)

SpecUpload == Init /\ [][UploadNext]_vars

\* ---------------------------------------------------- ProxySupervisor
TRet(c, r, v) == [cmd |-> c, ret |-> r, val |-> v]
FreeProcs == {p \in Procs : proc[p].st = "none"}
SupLockFree == suph.pc = "idle"

\* start_tor: lock = state.child.lock(); a handle is held: "Tor is already
\* running"; sidecar() or spawn() fails (ok = FALSE): the error; else the
\* child runs and the task that receives its CommandEvents is spawned
StartTor(ok, n) ==
  /\ SupLockFree /\ cmds < n
  /\ cmds' = cmds + 1
  /\ IF child # NoProc
       THEN /\ tret' = TRet("start", "Ok", "already")
            /\ UNCHANGED <<proc, suph>>
       ELSE IF ~ok
       THEN /\ tret' = TRet("start", "Err", "-")
            /\ UNCHANGED <<proc, suph>>
       ELSE /\ FreeProcs # {}
            /\ LET p == MinOf(FreeProcs) IN
                 /\ proc' = [proc EXCEPT ![p].st = "run"]
                 /\ suph' = [pc |-> "emit", p |-> p]
            /\ tret' = TRet("start", "none", "-")
  /\ UNCHANGED <<child, rx, tevs>>
  /\ UNCHANGED <<relayVars, netVars, persistVars, walletVars, uploadVars>>

\* start_tor: *lock = Some(child); emit tor-status "starting"; "Tor started"
StartEmit ==
  /\ suph.pc = "emit"
  /\ child' = suph.p
  /\ tevs' = Append(tevs, "starting")
  /\ tret' = TRet("start", "Ok", "started")
  /\ suph' = IdleStart
  /\ UNCHANGED <<proc, rx, cmds>>
  /\ UNCHANGED <<relayVars, netVars, persistVars, walletVars, uploadVars>>

\* child.kill() returns Ok: a running process dies and its Terminated event
\* follows; a process that has exited stays so
Kill(p) ==
  /\ proc' = [proc EXCEPT ![p].st = "dead"]
  /\ rx' = IF proc[p].st = "run" THEN [rx EXCEPT ![p] = Append(@, "term")]
           ELSE rx

\* stop_tor: lock.take(); with a handle: child.kill(), which the system may
\* refuse (ok = FALSE): the error is returned with `?`, the handle stays
\* taken; else emit tor-status "stopped", "Tor stopped"; without a handle:
\* "Tor is not running"
StopTor(ok, n) ==
  /\ SupLockFree /\ cmds < n
  /\ cmds' = cmds + 1
  /\ IF child # NoProc
       THEN /\ child' = NoProc
            /\ IF ok
                 THEN /\ Kill(child)
                      /\ tevs' = Append(tevs, "stopped")
                      /\ tret' = TRet("stop", "Ok", "stopped")
                 ELSE /\ tret' = TRet("stop", "Err", "-")
                      /\ UNCHANGED <<proc, rx, tevs>>
       ELSE /\ tret' = TRet("stop", "Ok", "not running")
            /\ UNCHANGED <<child, proc, rx, tevs>>
  /\ UNCHANGED suph
  /\ UNCHANGED <<relayVars, netVars, persistVars, walletVars, uploadVars>>

\* get_tor_status: Ok(lock.is_some())
GetTorStatus(n) ==
  /\ SupLockFree /\ cmds < n
  /\ cmds' = cmds + 1
  /\ tret' = TRet("status", "Ok", child # NoProc)
  /\ UNCHANGED <<child, proc, rx, tevs, suph>>
  /\ UNCHANGED <<relayVars, netVars, persistVars, walletVars, uploadVars>>

\* the tor process prints a line on stdout: one with "Bootstrapped 100%"
\* ("boot") or any other ("line")
ProcPrint(p, line) ==
  /\ proc[p].st = "run" /\ proc[p].lines < MaxLines
  /\ proc' = [proc EXCEPT ![p].lines = @ + 1]
  /\ rx' = [rx EXCEPT ![p] = Append(@, line)]
  /\ UNCHANGED <<child, tevs, tret, suph, cmds>>
  /\ UNCHANGED <<relayVars, netVars, persistVars, walletVars, uploadVars>>

\* the tor process exits on its own
ProcExit(p) ==
  /\ proc[p].st = "run"
  /\ proc' = [proc EXCEPT ![p].st = "dead"]
  /\ rx' = [rx EXCEPT ![p] = Append(@, "term")]
  /\ UNCHANGED <<child, tevs, tret, suph, cmds>>
  /\ UNCHANGED <<relayVars, netVars, persistVars, walletVars, uploadVars>>

\* the tor-status event the task emits for a CommandEvent, if any
StatusOf(e) ==
  IF e = "boot" THEN <<"connected">>
  ELSE IF e = "term" THEN <<"terminated">>
  ELSE <<>>

\* the spawned task: rx.recv().await, then the match on the event
TaskRecv(p) ==
  /\ rx[p] # <<>>
  /\ rx' = [rx EXCEPT ![p] = Tail(@)]
  /\ tevs' = tevs \o StatusOf(Head(rx[p]))
  /\ UNCHANGED <<child, proc, tret, suph, cmds>>
  /\ UNCHANGED <<relayVars, netVars, persistVars, walletVars, uploadVars>>

SupNext ==
  \/ \E ok \in BOOLEAN : StartTor(ok, MaxSupCmds)
  \/ StartEmit
  \/ \E ok \in BOOLEAN : StopTor(ok, MaxSupCmds)
  \/ GetTorStatus(MaxSupCmds)
  \/ \E p \in Procs, line \in {"boot", "line"} : ProcPrint(p, line)
  \/ \E p \in Procs : ProcExit(p)
  \/ \E p \in Procs : TaskRecv(p)

SpecSup == Init /\ [][SupNext]_vars

\* ------------------------------------------------------------------ Next
Next ==
  \/ \E k \in UiCalls, u \in Urls : UiConnect(k, u)
  \/ \E t \in Tasks : TaskConnectEnter(t)
  \/ \E k \in Callers : ConnectCheck(k)
  \/ \E k \in Callers : ConnectRoute(k)
  \/ \E k \in Callers : ConnectDialOk(k)
  \/ \E k \in Callers : ConnectDialFail(k)
  \/ \E k \in Callers : ConnectInstall(k)
  \/ \E k \in Callers : ConnectSnapshot(k)
  \/ \E k \in Callers : ConnectReplay(k)
  \/ \E k \in Callers : ConnectDone(k)
  \/ \E c \in Conns : WriterSend(c)
  \/ \E c \in Conns : WriterEnd(c)
  \/ \E c \in Conns : PeerDrop(c)
  \/ \E c \in Conns : ReaderExit(c)
  \/ \E c \in Conns : ReaderRemove(c)
  \/ \E c \in Conns : SchedDesired(c)
  \/ \E c \in Conns : SchedInflight(c)
  \/ \E c \in Conns : SchedSpawn(c)
  \/ \E t \in Tasks : TaskWake(t)
  \/ \E t \in Tasks : TaskClearBackoff(t)
  \/ \E t \in Tasks : TaskClearInflight(t)
  \/ \E u \in Urls : DiscDesired(u)
  \/ DiscInflight
  \/ DiscBackoff
  \/ DiscRemove
  \/ DiscSend
  \/ \E u \in Urls, sid \in SubIds, f \in Filters : Subscribe(u, sid, f)
  \/ \E u \in Urls, sid \in SubIds : Unsubscribe(u, sid)
  \/ SubGetTx
  \/ SubSend
  \/ \E u \in Urls, kind \in {"publish", "raw"} : Publish(u, kind)
  \/ PubSend

Spec == Init /\ [][Next]_vars

\* the steps the backend takes by itself: everything but the UI's commands
\* and the failures of the network (a dropped socket, a failed handshake)
Internal ==
  \/ \E t \in Tasks : TaskConnectEnter(t)
  \/ \E k \in Callers : ConnectCheck(k)
  \/ \E k \in Callers : ConnectRoute(k)
  \/ \E k \in Callers : ConnectDialOk(k)
  \/ \E k \in Callers : ConnectInstall(k)
  \/ \E k \in Callers : ConnectSnapshot(k)
  \/ \E k \in Callers : ConnectReplay(k)
  \/ \E k \in Callers : ConnectDone(k)
  \/ \E c \in Conns : WriterSend(c)
  \/ \E c \in Conns : WriterEnd(c)
  \/ \E c \in Conns : ReaderExit(c)
  \/ \E c \in Conns : ReaderRemove(c)
  \/ \E c \in Conns : SchedDesired(c)
  \/ \E c \in Conns : SchedInflight(c)
  \/ \E c \in Conns : SchedSpawn(c)
  \/ \E t \in Tasks : TaskWake(t)
  \/ \E t \in Tasks : TaskClearBackoff(t)
  \/ \E t \in Tasks : TaskClearInflight(t)
  \/ DiscInflight
  \/ DiscBackoff
  \/ DiscRemove
  \/ DiscSend
  \/ SubGetTx
  \/ SubSend
  \/ PubSend
  \/ \E k \in Callers : TorRead(k)
  \/ \E k \in Callers : TorReadProxy(k)
  \/ SetProxy
  \/ \E ok \in BOOLEAN : SaveWrite(ok)

\* ----------------------------------------------------------- SpecBackoff
\* The reconnect cycle on its own: the UI connects again whenever the backend
\* has come to rest, the network drops sockets and fails handshakes, and no
\* frame is ever sent.
AtRest == ~ENABLED Internal

BackoffConnect(u) == AtRest /\ ConnectCmd("ui", u, MaxConnects)

BackoffNext ==
  \/ \E u \in Urls : BackoffConnect(u)
  \/ \E t \in Tasks : TaskConnectEnter(t)
  \/ \E k \in Callers : ConnectCheck(k)
  \/ \E k \in Callers : ConnectRoute(k)
  \/ \E k \in Callers : ConnectDialOk(k)
  \/ \E k \in Callers : ConnectDialFail(k)
  \/ \E k \in Callers : ConnectInstall(k)
  \/ \E k \in Callers : ConnectSnapshot(k)
  \/ \E k \in Callers : ConnectDone(k)
  \/ \E c \in Conns : WriterEnd(c)
  \/ \E c \in Conns : PeerDrop(c)
  \/ \E c \in Conns : ReaderExit(c)
  \/ \E c \in Conns : ReaderRemove(c)
  \/ \E c \in Conns : SchedDesired(c)
  \/ \E c \in Conns : SchedInflight(c)
  \/ \E c \in Conns : SchedSpawn(c)
  \/ \E t \in Tasks : TaskWake(t)
  \/ \E t \in Tasks : TaskClearBackoff(t)
  \/ \E t \in Tasks : TaskClearInflight(t)

SpecBackoff == Init /\ [][BackoffNext]_vars

\* --------------------------------------------------------------- SpecSeq
\* One caller on a healthy network: connect_relay, then optionally
\* subscribe_relay and publish_event, then disconnect_relay, each issued
\* after the one before has returned; no socket drops, no handshake fails.
UiIdle ==
  /\ \A k \in UiCalls : call[k].pc = "idle"
  /\ disc.pc = "idle" /\ subh.pc = "idle" /\ pubh.pc = "idle"

SeqConnect(u) == ConnectCmd("ui", u, 1)
SeqSubscribe(u, sid, f) ==
  UiIdle /\ cmds = 1 /\ u \in desired /\ SubscribeCmd(u, sid, f, 2)
SeqPublish(u) ==
  UiIdle /\ cmds = 2 /\ u \in desired /\ PublishCmd(u, "publish", 3)
SeqDisconnect(u) ==
  UiIdle /\ cmds >= 1 /\ u \in desired /\ DisconnectCmd(u, 4)

SeqNext ==
  \/ \E u \in Urls : SeqConnect(u)
  \/ \E u \in Urls, sid \in SubIds, f \in Filters : SeqSubscribe(u, sid, f)
  \/ \E u \in Urls : SeqPublish(u)
  \/ \E u \in Urls : SeqDisconnect(u)
  \/ \E k \in Callers : ConnectCheck(k)
  \/ \E k \in Callers : ConnectRoute(k)
  \/ \E k \in Callers : ConnectDialOk(k)
  \/ \E k \in Callers : ConnectInstall(k)
  \/ \E k \in Callers : ConnectSnapshot(k)
  \/ \E k \in Callers : ConnectDone(k)
  \/ \E c \in Conns : WriterSend(c)
  \/ \E c \in Conns : WriterEnd(c)
  \/ \E c \in Conns : ReaderExit(c)
  \/ \E c \in Conns : ReaderRemove(c)
  \/ \E c \in Conns : SchedDesired(c)
  \/ DiscInflight
  \/ DiscBackoff
  \/ DiscRemove
  \/ DiscSend
  \/ SubGetTx
  \/ SubSend
  \/ PubSend

SpecSeq == Init /\ [][SeqNext]_vars

\* the pool with the receiving side of its sockets: connect_relay and
\* disconnect_relay of the UI, the relay's frames and the reader's loop
RdConnect(u) == ConnectCmd("ui", u, MaxRdCmds)
RdDisconnect(u) == DisconnectCmd(u, MaxRdCmds)

ReaderNext ==
  \/ \E u \in Urls : RdConnect(u)
  \/ \E u \in Urls : RdDisconnect(u)
  \/ \E t \in Tasks : TaskConnectEnter(t)
  \/ \E k \in Callers : ConnectCheck(k)
  \/ \E k \in Callers : ConnectRoute(k)
  \/ \E k \in Callers : ConnectDialOk(k)
  \/ \E k \in Callers : ConnectInstall(k)
  \/ \E k \in Callers : ConnectSnapshot(k)
  \/ \E k \in Callers : ConnectDone(k)
  \/ \E c \in Conns : WriterSend(c)
  \/ \E c \in Conns : WriterEnd(c)
  \/ \E c \in Conns, f \in FrameKinds : PeerSend(c, f, MaxFrames)
  \/ \E c \in Conns : ReaderRecv(c)
  \/ \E c \in Conns : ReaderExit(c)
  \/ \E c \in Conns : ReaderRemove(c)
  \/ \E c \in Conns : SchedDesired(c)
  \/ \E c \in Conns : SchedInflight(c)
  \/ \E c \in Conns : SchedSpawn(c)
  \/ \E t \in Tasks : TaskWake(t)
  \/ \E t \in Tasks : TaskClearBackoff(t)
  \/ \E t \in Tasks : TaskClearInflight(t)
  \/ DiscInflight
  \/ DiscBackoff
  \/ DiscRemove
  \/ DiscSend

SpecReader == Init /\ [][ReaderNext]_vars

\* ----------------------------------------------------------- SpecPublish
\* One caller that connects and publishes, each command issued after the one
\* before has returned, on a network that drops sockets and fails handshakes.
SerialConnect(u) == UiIdle /\ ConnectCmd("ui", u, MaxSerial)
SerialPublish(u, kind) == UiIdle /\ PublishCmd(u, kind, MaxSerial)

PublishNext ==
  \/ \E u \in Urls : SerialConnect(u)
  \/ \E u \in Urls, kind \in {"publish", "raw"} : SerialPublish(u, kind)
  \/ \E t \in Tasks : TaskConnectEnter(t)
  \/ \E k \in Callers : ConnectCheck(k)
  \/ \E k \in Callers : ConnectRoute(k)
  \/ \E k \in Callers : ConnectDialOk(k)
  \/ \E k \in Callers : ConnectDialFail(k)
  \/ \E k \in Callers : ConnectInstall(k)
  \/ \E k \in Callers : ConnectSnapshot(k)
  \/ \E k \in Callers : ConnectDone(k)
  \/ \E c \in Conns : WriterSend(c)
  \/ \E c \in Conns : WriterEnd(c)
  \/ \E c \in Conns : PeerDrop(c)
  \/ \E c \in Conns : ReaderExit(c)
  \/ \E c \in Conns : ReaderRemove(c)
  \/ \E c \in Conns : SchedDesired(c)
  \/ \E c \in Conns : SchedInflight(c)
  \/ \E c \in Conns : SchedSpawn(c)
  \/ \E t \in Tasks : TaskWake(t)
  \/ \E t \in Tasks : TaskClearBackoff(t)
  \/ \E t \in Tasks : TaskClearInflight(t)
  \/ PubSend

SpecPublish == Init /\ [][PublishNext]_vars

\* --------------------------------------------------------------- SpecSub
\* One caller that connects, subscribes and unsubscribes in any order, each
\* command issued after the one before has returned, on a healthy network.
SerialSubscribe(u, sid, f) == UiIdle /\ SubscribeCmd(u, sid, f, MaxSerial)
SerialUnsubscribe(u, sid) == UiIdle /\ UnsubscribeCmd(u, sid, MaxSerial)

SubNext ==
  \/ \E u \in Urls : SerialConnect(u)
  \/ \E u \in Urls, sid \in SubIds, f \in Filters : SerialSubscribe(u, sid, f)
  \/ \E u \in Urls, sid \in SubIds : SerialUnsubscribe(u, sid)
  \/ \E k \in Callers : ConnectCheck(k)
  \/ \E k \in Callers : ConnectRoute(k)
  \/ \E k \in Callers : ConnectDialOk(k)
  \/ \E k \in Callers : ConnectInstall(k)
  \/ \E k \in Callers : ConnectSnapshot(k)
  \/ \E k \in Callers : ConnectReplay(k)
  \/ \E k \in Callers : ConnectDone(k)
  \/ \E c \in Conns : WriterSend(c)
  \/ SubGetTx
  \/ SubSend

SpecSub == Init /\ [][SubNext]_vars

\* --------------------------------------------------------------- SpecTor
\* connect_relay next to save_tor_settings: the UI changes the Tor settings
\* and connects, handshakes fail or succeed, no socket drops.
TorSave(e, p) == SaveTorSettings(e, p, MaxTorCmds)
TorConnect(u) == ConnectCmd("ui", u, MaxTorCmds)

TorNext ==
  \/ \E e \in BOOLEAN, p \in Proxies : TorSave(e, p)
  \/ SetProxy
  \/ \E u \in Urls : TorConnect(u)
  \/ \E k \in Callers : ConnectCheck(k)
  \/ \E k \in Callers : ConnectRoute(k)
  \/ \E k \in Callers : TorRead(k)
  \/ \E k \in Callers : TorReadProxy(k)
  \/ \E k \in Callers : TorDialFail(k)
  \/ \E k \in Callers : TorGiveUp(k)
  \/ \E k \in Callers : ConnectDialOk(k)
  \/ \E k \in Callers : ConnectDialFail(k)
  \/ \E k \in Callers : ConnectInstall(k)
  \/ \E k \in Callers : ConnectSnapshot(k)
  \/ \E k \in Callers : ConnectDone(k)
  \/ \E ok \in BOOLEAN : SaveWrite(ok)

SpecTor == Init /\ [][TorNext]_vars

\* ================================================================ claims
ReaderAlive(c) == reader[c] \in {"run", "rm", "s_des", "s_inf", "s_bk"}
WriterAlive(c) == writer[c] = "run"
TasksOf(u) == {t \in Tasks : rtask[t].pc # "none" /\ rtask[t].url = u}
ReaderCleaning(u) == \E c \in Cleaning : curl[c] = u

\* C1: a url with an entry in the connections map has a live reader task and
\* a live writer task for that entry.
C1_EntryImpliesTasksAlive ==
  \A u \in Urls :
    connections[u] # NoConn =>
      ReaderAlive(connections[u]) /\ WriterAlive(connections[u])

\* C2: when connect_relay returns success, every (sub_id, filter) of
\* PerRelayState[url] has been enqueued as a REQ frame on the connection's
\* channel exactly once, also when subscribe_relay ran concurrently (read
\* here at a return that finds no subscribe call still in progress).
C2_ReplayExactlyOnce ==
  (out.ev = "connected" /\ subh.pc = "idle") =>
    \A p \in SubsOf(out.url) : reqs[out.conn][p] = 1

\* C3: after a reader exit for a url that stays desired there is no state in
\* which the url is desired, not connected, and no reconnect is pending or in
\* progress.
C3_ReconnectKeepsTrying ==
  \A u \in Urls :
    (lost[u] /\ u \in desired /\ connections[u] = NoConn) =>
      (TasksOf(u) # {} \/ ReaderCleaning(u) \/ ConnectInProgress(u))

\* the delay sequence the specification states: 1, 2, 4, 8, 16, 32, 60, 60, ... s
ClaimedDelay(n) == Min(BASE_MS * Pow2(n - 1), MAX_MS)

\* C4: the n-th consecutive reconnect scheduled from a fresh backoff state
\* waits 1, 2, 4, 8, 16, 32, 60, 60, ... seconds.
C4_DelaySequence ==
  \A t \in Tasks :
    rtask[t].pc # "none" => rtask[t].delay = ClaimedDelay(rtask[t].nth)

\* C5: at most one reconnect task exists per url at any time.
C5_OneReconnectTask ==
  \A u \in Urls : Cardinality(TasksOf(u)) <= 1

\* C6: a url with a scheduled (unfinished) reconnect task is in DesiredSet
\* and has its in-flight flag set.
C6_ScheduledImpliesDesiredInflight ==
  \A t \in Tasks :
    rtask[t].pc # "none" =>
      rtask[t].url \in desired /\ rtask[t].url \in inflight

\* C7: once disconnect_relay(url) has returned, and until the user connects
\* again, no reconnect is newly scheduled, no connection entry is installed
\* and no `connected` status is emitted for url.
C7_DisconnectCancels ==
  \A u \in Urls :
    cancelled[u] =>
      /\ connections[u] = NoConn
      /\ ~(out.ev = "connected" /\ out.url = u)
      /\ \A t \in TasksOf(u) : ~rtask[t].late

\* C8: a connect_relay that finds the url in the connections map returns
\* "Already connected", opens no socket, spawns no task, replays nothing and
\* leaves the connections map unchanged.
C8_SecondConnectIsNoop ==
  [][\A k \in Callers :
       (call[k].pc = "check" /\ call'[k].pc # "check"
          /\ connections[call[k].url] # NoConn)
       => /\ out'.ret = "Already connected"
          /\ call'[k].pc = "idle"
          /\ connections' = connections
          /\ UNCHANGED <<sock, writer, reader, chan, enq, wire, reqs>>]_vars

\* the second of two UI connects returns "Already connected"
C8_Witness ==
  /\ out.ret = "Already connected" /\ out.by \in UiCalls
  /\ connections[out.url] # NoConn
  /\ cmds = 2

\* a live connection of u is installed and a REQ frame of every persisted
\* subscription of u has gone out on its socket
Resubscribed(u) ==
  \E c \in Conns :
    /\ connections[u] = c /\ sock[c] = "open" /\ reader[c] = "run"
    /\ \A p \in SubsOf(u) :
         \E i \in DOMAIN wire[c] : wire[c][i] = ReqFrame(p[1], p[2])

\* C9: after a connected relay with persisted subscriptions dropped while
\* desired (and with no later failure and no UI command), the backend does
\* not come to rest before a new connection carries a REQ frame of every
\* persisted subscription.
C9_DropLeadsToResubscribe ==
  \A u \in Urls :
    (watch[u] /\ u \in desired /\ ~Resubscribed(u)) => ENABLED Internal

\* C10: PerRelayState changes only in the first step of subscribe_relay
\* (insert or overwrite of one sub_id) and of unsubscribe_relay (removal of
\* one sub_id), in the same way whether the url is connected or not; every
\* other step leaves it unchanged.
C10_StatesFrame ==
  [][IF subh.pc = "idle" /\ subh'.pc = "get"
     THEN states' = [states EXCEPT ![subh'.url][subh'.sid] =
                        IF subh'.kind = "sub" THEN subh'.f ELSE NoFilter]
     ELSE states' = states]_vars

\* subscribe_relay has just updated the state of a connected url
C10_Witness ==
  /\ subh.pc = "get" /\ subh.kind = "sub"
  /\ connections[subh.url] # NoConn
  /\ states[subh.url][subh.sid] = subh.f

\* C11: after a successful connect to a url the backoff exponent of the url
\* is 0 (read when a user-issued connect_relay returns "Connected" and no
\* reconnect task and no disconnect_relay is left that would still clear
\* the exponent).
C11_ConnectResetsBackoff ==
  (out.ret = "Connected" /\ out.by \in UiCalls /\ disc.pc = "idle"
     /\ TasksOf(out.url) = {} /\ ~ReaderCleaning(out.url))
  => backoff[out.url] = 0

\* C12: the backoff exponent stored for a url lies in 0..=6 in every
\* reachable state.
C12_ExponentRange == \A u \in Urls : backoff[u] \in 0..ExpCap

IsPrefix(a, b) == Len(a) <= Len(b) /\ \A i \in 1..Len(a) : a[i] = b[i]

\* C13: for connect_relay(url) followed by disconnect_relay(url) the
\* relay-status events emitted about the connection are `connected`,
\* `disconnected`, the latter once.
C13_StatusSequence ==
  \A c \in Conns : IsPrefix(evs[c], <<"connected", "disconnected">>)

\* the frames the scenario connect, subscribe p, publish, disconnect puts on
\* the socket
ScenarioFrames(p) == <<ReqFrame(p[1], p[2]), EventFrame, WsClose>>

\* C14: within a connection the writer puts the frames on the socket in the
\* order the channel accepted them, none twice and none skipped; after
\* connect, subscribe s1, publish E, disconnect issued one after the other
\* the socket sees REQ(s1), EVENT(E), Close in this order.
C14_FifoOrder ==
  \A c \in Conns :
    /\ IsPrefix(wire[c], enq[c])
    /\ (cmds = 4 /\ sock[c] # "none") =>
         \E p \in SubsOf(curl[c]) : IsPrefix(wire[c], ScenarioFrames(p))

\* the four commands have returned and the Close frame is on the socket,
\* after REQ and EVENT
C14_Witness ==
  /\ cmds = 4 /\ UiIdle
  /\ \E c \in Conns :
       /\ Len(wire[c]) = 3 /\ wire[c][3] = WsClose
       /\ wire[c][2] = EventFrame /\ wire[c][1].t = "REQ"

C16_SubscribeUnsubscribe ==
  (subh.pc = "get" /\ subh.kind = "unsub" /\ subh.prev = <<subh.url, subh.sid>>)
  => \A s \in SubIds : states[subh.url][s] = NoFilter

\* the round trip on a connected url: the REQ frame of the subscription went
\* into the channel of the connection that unsubscribe_relay is about to use
C16_Witness ==
  /\ subh.pc = "get" /\ subh.kind = "unsub" /\ subh.prev = <<subh.url, subh.sid>>
  /\ SubsOf(subh.url) = {}
  /\ connections[subh.url] # NoConn
  /\ \E i \in DOMAIN enq[connections[subh.url]] :
       /\ enq[connections[subh.url]][i].t = "REQ"
       /\ enq[connections[subh.url]][i].sid = subh.sid

\* C17: a reader that obtains (tor_enabled, proxy_url) through
\* is_tor_enabled() and get_proxy_url() next to a set sees a pair the
\* runtime was given: here the pair connect_websocket dials with.
C17_SetIsAtomic ==
  \A k \in Callers :
    (call[k].pc = "tdial" /\ call[k].path = "socks")
    => <<TRUE, call[k].proxy>> \in cfgs

\* C18: a connect_relay that took the Tor branch dials through the proxy in
\* every connect_websocket of that attempt.
C18_OneSnapshot ==
  \A k \in Callers : call[k].pc = "tdial" => call[k].path = "socks"

\* C19: with Tor enabled connect_relay dials at most 30 times; it returns an
\* error only after 30 failed dials, and a dial that succeeds is followed by
\* the installation of the connection.
C19_TorAttempts ==
  [][\A k \in Callers :
       /\ call'[k].att <= 30
       /\ (call[k].pc = "tor" /\ call'[k].pc = "idle")
            => call[k].att = 30 /\ out'.ret = "Err"
       /\ (call[k].pc = "tdial" /\ call'[k].pc # "tdial")
            => \/ call'[k].pc = "tor" /\ call'[k].att = call[k].att + 1
               \/ call'[k].pc = "install" /\ call'[k].att = call[k].att
       /\ (call[k].pc = "install" /\ call'[k].pc # "install")
            => call'[k].pc = "snap"]_vars

\* a dial succeeded after some failed ones and the connection is about to be
\* installed
C19_Witness ==
  \E k \in Callers :
    call[k].pc = "install" /\ call[k].att \in 1..29 /\ call[k].path = "socks"

\* C20: a connect_relay that fails in its handshake (direct, or at the end of
\* the Tor loop) returns the error, emits relay-status error for the url,
\* installs no entry and starts no task.
C20_TransportError ==
  [][\A k \in Callers :
       (call[k].pc \in {"dial", "tor", "tdial"} /\ call'[k].pc = "idle")
       => /\ out'.ev = "error" /\ out'.ret = "Err"
          /\ out'.url = call[k].url /\ out'.by = k
          /\ UNCHANGED <<connections, sock, writer, reader, chan>>]_vars

\* connect_relay has given up after the Tor loop
C20_Witness ==
  /\ out.ev = "error" /\ out.ret = "Err" /\ out.by \in UiCalls
  /\ out.cmd = "tor"
  /\ connections[out.url] = NoConn

\* load_tor_settings: the pair the file stands for (the default without a file)
load_tor_settings == IF tfile = NoFile THEN <<FALSE, DefaultProxy>> ELSE tfile

\* C29: when save_tor_settings(enabled, proxy_url) returns, tor_settings.json,
\* TorState.settings and the NetworkRuntime hold the same pair: the new one
\* when it returns Ok, the one from before the call when it returns an error
C29_AllOrNothing ==
  [][(seth.pc = "write" /\ seth'.pc = "idle") =>
       /\ load_tor_settings' = tsettings'
       /\ tsettings' = <<enable_tor', proxy_url'>>
       /\ tret'.ret = "Ok" => tsettings' = <<seth.tor, seth.url>>
       /\ tret'.ret = "Err" => tsettings' = seth.old]_vars

NoneRunning == \A p \in Procs : proc[p].st # "run"
StartStep == suph.pc = "idle" /\ cmds' = cmds + 1 /\ tret'.cmd = "start"
StopStep == cmds' = cmds + 1 /\ tret'.cmd = "stop"
StatusStep == cmds' = cmds + 1 /\ tret'.cmd = "status"
\* a stop_tor has stopped a child and no start_tor has started one since
StoppedLast ==
  \E i \in 1..Len(tevs) :
    tevs[i] = "stopped" /\ \A j \in (i + 1)..Len(tevs) : tevs[j] # "starting"

\* C28: start_tor with no child running spawns the child (or reports that
\* the spawn failed); a stdout line with "Bootstrapped 100%" makes the task
\* emit tor-status connected; stop_tor on a running child, unless the kill
\* is refused, kills it, emits tor-status stopped and clears the handle, and
\* get_tor_status reports whether a handle is held; connected is never
\* emitted before a start_tor
C28_ProxyLifecycle ==
  [][
      /\ (StartStep /\ NoneRunning) =>
          \/ tret'.ret = "Err"
          \/ \E p \in Procs : proc[p].st = "none" /\ proc'[p].st = "run"
      /\ \A p \in Procs :
          (rx[p] # <<>> /\ rx'[p] = Tail(rx[p]) /\ Head(rx[p]) = "boot")
          => tevs' = Append(tevs, "connected")
      /\ (StopStep /\ child # NoProc /\ proc[child].st = "run"
            /\ tret'.ret = "Ok") =>
          /\ proc'[child].st = "dead"
          /\ tevs' = Append(tevs, "stopped")
          /\ child' = NoProc
      /\ (StatusStep /\ StoppedLast) => tret'.val = FALSE
      /\ (\E i \in 1..Len(tevs') : tevs'[i] = "connected")
          => \E p \in Procs : proc'[p].st # "none"]_vars

WReturns(w) == WRunning(w) /\ ~WRunning(w)'

\* C21: a get_native_npub invoked after a successful import_native_nsec(x),
\* with no key-changing command in between, returns the public key of x;
\* invoked after a successful logout_native(), it returns None, and the
\* Session and the SecretStore entry are both empty
C21_ImportLogoutRoundTrip ==
  [][\A w \in WSlots :
       (WReturns(w) /\ wh[w].op = "get" /\ wh[w].after = wlast
          /\ wlast # NoLast) =>
         /\ wlast[1] = "import" =>
              /\ wret'.ret = "Ok"
              /\ wret'.val = PubOf(KeysParse(wlast[2]))
         /\ wlast[1] = "logout" =>
              /\ wret'.ret = "Ok" /\ wret'.val = "None"
              /\ skeys' = NoKey /\ keychain' = NoKey]_vars

UpReturns == up.pc # "idle" /\ up'.pc = "idle"
\* the handler after the step, also when the step made it return
UpAfter == IF UpReturns THEN uret'.h ELSE up'
\* the step is one attempt of the field-name loop
Attempts == up.pc = "post" /\ Len(UpAfter.resps) = Len(up.resps) + 1
\* what that attempt got
Got == UpAfter.resps[Len(UpAfter.resps)]
\* the step sends an HTTP request
Posts == up.pc = "post" /\ Len(UpAfter.posts) = Len(up.posts) + 1
\* a 400 whose body mentions "no files"
NoFiles400(r) == r.st = 400 /\ MentionsNoFiles(r.body)
\* the strings an UploadResponse message is made of
Texts(m) == {m.text, m.last.kind, m.last.body[1]}

\* C23: an upload (of any bytes, zero bytes included) that finds the Session
\* empty returns the error NO_SESSION, has sent no request, and has neither
\* read the SecretStore nor populated the Session
C23_NoSession ==
  [][(UpReturns /\ up.s0 = NoKey /\ skeys = NoKey) =>
       /\ uret'.ret = "Err" /\ uret'.code = "NO_SESSION"
       /\ uret'.h.posts = <<>>
       /\ kreads' = up.r0 /\ skeys' = NoKey]_vars

\* C24: an upload of zero bytes returns an error result that says the file
\* is empty, with no HTTP client built and no request sent
C24_EmptyFile ==
  [][(UpReturns /\ up.bytes = "zero") =>
       /\ uret'.ret = "Ok" /\ uret'.status = "error"
       /\ uret'.message.text = "Empty file bytes"
       /\ uret'.h.client = "-"
       /\ uret'.h.posts = <<>> /\ uret'.h.resps = <<>>]_vars

\* a zero-byte upload has returned while a Session existed
C24_Witness ==
  /\ uret.h.bytes = "zero" /\ uret.h.s0 = "k1" /\ uret.status = "error"
  /\ up.pc = "idle" /\ skeys = "k1"

\* C25: the requests of one upload use the field names file, files[], files,
\* in that order and each at most once; a 400 that mentions "no files" is
\* followed by the next attempt while a field name is left; the attempt that
\* yields a success result ends the upload
C25_FieldNameOrder ==
  [][/\ IsPrefix(UpAfter.posts, <<"file", "files[]", "files">>)
     /\ (Attempts /\ NoFiles400(Got) /\ Len(UpAfter.posts) < 3) =>
          /\ ~UpReturns
          /\ up'.pc = "post"
     /\ (Attempts /\ YieldsSuccess(Got)) =>
          /\ UpReturns
          /\ uret'.ret = "Ok" /\ uret'.status = "success"]_vars

\* the third field name succeeded after two "no files" answers
C25_Witness ==
  /\ up.pc = "idle" /\ uret.status = "success"
  /\ uret.h.posts = <<"file", "files[]", "files">>
  /\ NoFiles400(uret.h.resps[1]) /\ NoFiles400(uret.h.resps[2])
  /\ YieldsSuccess(uret.h.resps[3])

\* C26: a request after the first one is sent only when the attempt before
\* it got a 400 that mentions "no files"
C26_RetryOnlyOnNoFiles ==
  [][(Posts /\ up.resps # <<>>) => NoFiles400(up.resps[Len(up.resps)])]_vars

\* C27: an attempt that gets a 3xx ends the upload with an error result that
\* includes the Location header
C27_RedirectReported ==
  [][(Attempts /\ Got.st >= 300 /\ Got.st < 400) =>
       /\ UpReturns
       /\ uret'.status = "error"
       /\ Got.loc \in Texts(uret'.message)]_vars

\* ------------------------------------------------ disconnect_relay, C30
\* the step with which the disconnect_relay in flight returns
DiscReturns == disc.pc # "idle" /\ disc'.pc = "idle"

\* the pool holds nothing for u
Absent(u) ==
  /\ u \notin desired
  /\ u \notin inflight
  /\ backoff[u] = 0
  /\ connections[u] = NoConn

\* a step of a disconnect_relay, its first included, taken while the pool
\* holds nothing for its url and before it has removed a connection entry
RepeatedStep(u) ==
  /\ Absent(u)
  /\ \/ disc.pc = "idle" /\ disc'.pc = "inf" /\ disc'.url = u
     \/ disc.pc \in {"inf", "bk", "rm"} /\ disc'.pc # disc.pc /\ disc.url = u

\* C30: when a disconnect_relay(url) that no connect_relay of the user
\* overlapped returns, url is absent from the desired set, the in-flight
\* set, the backoff map and the connections map; it enqueues a Close frame
\* and emits `disconnected` only when it removed a connection entry; a
\* disconnect that finds nothing for url changes no pool state, enqueues
\* nothing and emits nothing
C30_DisconnectPostcondition ==
  [][
     \A u \in Urls :
       /\ (DiscReturns /\ disc.alone /\ disc.url = u) =>
            /\ Absent(u)'
            /\ (out'.ev = "disconnected" \/ enq' # enq \/ evs' # evs) =>
                  /\ disc.tx # NoConn
                  /\ out'.ret = "Disconnected"
            /\ out'.ret = "Not connected" => disc.tx = NoConn
       /\ RepeatedStep(u) =>
            /\ poolVars' = poolVars
            /\ chan' = chan /\ evs' = evs
            /\ DiscReturns => out'.ret = "Not connected" /\ out'.ev = "none"
    ]_vars

\* ------------------------------------------------- pool invariants, C36
\* C36: in every reachable state in which no disconnect_relay(u) is under
\* way (it removes u from the desired set before it removes the entry), a
\* url u with an entry in the connections map is in the desired set
C36_ConnectedImpliesDesired ==
  \A u \in Urls :
    (connections[u] # NoConn /\ ~(disc.pc # "idle" /\ disc.url = u)) =>
      u \in desired

\* ------------------------------------------- one socket per url, C35
\* the connections of u whose socket is open and whose reader task reads it
Live(u) == {c \in Conns : curl[c] = u /\ sock[c] = "open" /\ reader[c] = "run"}

\* the reader task of c runs its connections.remove(&read_url)
ReaderRemoves(c) == reader[c] = "rm" /\ reader'[c] = "s_des"

\* an exiting reader removes no entry but its own
OwnEntryOnly ==
  \A c \in Conns : ReaderRemoves(c) => connections[curl[c]] \in {c, NoConn}

\* C35: a url never has two live sockets, and the reader task that exits
\* removes the entry of its own connection only
C35_OneSocketPerUrl ==
  [][(\A u \in Urls : Cardinality(Live(u))' <= 1) /\ OwnEntryOnly]_vars

\* ------------------------------------- subscribe vs connect race, C37
\* connect_relay has returned "Connected" for connection c
Connected(c) == \E i \in 1..Len(evs[c]) : evs[c][i] = "connected"

\* a subscribe_relay(u, sid, ..) is under way
Subscribing(u, sid) == subh.pc # "idle" /\ subh.url = u /\ subh.sid = sid

\* C37: once connect_relay has returned "Connected" for a connection of u,
\* while its socket and its channel are open and its reader task reads it,
\* and no subscribe_relay for the subscription is under way, every
\* subscription persisted for u has had its REQ frame enqueued on that
\* connection at least once
C37_NoLostSubscription ==
  \A c \in Conns : \A p \in Pairs :
    (/\ sock[c] = "open" /\ reader[c] = "run" /\ ~ChanClosed(c)
     /\ Connected(c)
     /\ states[curl[c]][p[1]] = p[2]
     /\ ~Subscribing(curl[c], p[1])) =>
      reqs[c][p] >= 1

\* ------------------------------------ mutexes and suspension points, C33
\* Every critical section on states, desired, backoff and in-flight is one
\* step of the model; the `connections` guard of the reader's cleanup is the
\* one guard that outlives a step (connLock).
\* the tasks that hold a mutex of the pool between two of their steps
Holding == IF connLock = NoConn THEN {} ELSE {<<"reader", connLock>>}

\* a reader whose schedule_reconnect sleeps by itself (a broken variant,
\* for C33)
ReaderAwaits_InlineSleep(c) == reader[c] \in {"run", "s_bk"}
\* read_stream.next().await
ReaderAwaits(c) == reader[c] = "run"

\* the tasks that sit at an .await: the reader's read, the writer's recv /
\* send, connect_relay's handshake, its sleep between two Tor attempts and
\* its replay send, the reconnect task's sleep and its connect_relay call,
\* and the tx.send of disconnect, subscribe / unsubscribe and publish
Awaiting ==
  {<<"reader", c>> : c \in {x \in Conns : ReaderAwaits(x)}}
    \cup {<<"writer", c>> : c \in {x \in Conns : writer[x] = "run"}}
    \cup {<<"call", k>> :
            k \in {x \in Callers : call[x].pc \in {"dial", "tdial", "tor", "replay"}}}
    \cup {<<"task", t>> : t \in {x \in Tasks : rtask[x].pc \in {"sleep", "call"}}}
    \cup (IF disc.pc = "send" THEN {<<"disconnect", "ui">>} ELSE {})
    \cup (IF subh.pc = "send" THEN {<<"subscribe", "ui">>} ELSE {})
    \cup (IF pubh.pc = "send" THEN {<<"publish", "ui">>} ELSE {})

WantsConnections ==
  {<<"call", k>> : k \in {x \in Callers : call[x].pc \in {"check", "install"}}}
    \cup {<<"reader", c>> : c \in {x \in Conns : reader[x] = "rm"}}
    \cup (IF disc.pc = "rm" THEN {<<"disconnect", "ui">>} ELSE {})
    \cup (IF subh.pc = "get" THEN {<<"subscribe", "ui">>} ELSE {})

\* the next critical section of schedule_reconnect, run by the reader of c
\* under its `connections` guard: desired, then in-flight, then backoff
SchedStep(c) == SchedDesired(c) \/ SchedInflight(c) \/ SchedSpawn(c)

C39_LogoutStaysEmpty == wlast[1] = "logout" => skeys = NoKey

\* ------------------------------------------- status after an exit, C40
\* no tor process is alive, one has run, and the task has received every
\* event, the Terminated one included (tor-status "terminated: .." is out)
Exited ==
  /\ NoneRunning
  /\ \E p \in Procs : proc[p].st = "dead"
  /\ \A p \in Procs : rx[p] = <<>>

\* C40: once the tor process has terminated and its terminated event is
\* out, get_tor_status returns false and start_tor spawns a new child (or
\* reports that the spawn failed)
C40_StatusAfterExit ==
  [][
      /\ (StatusStep /\ Exited) => tret'.val = FALSE
      /\ (StartStep /\ Exited) =>
           \/ tret'.ret = "Err"
           \/ \E p \in Procs : proc[p].st = "none" /\ proc'[p].st = "run"
    ]_vars

\* -------------------------------------------- one child at a time, C32
\* the tor processes that are alive
Alive == {p \in Procs : proc[p].st = "run"}

\* C32: at most one tor process is alive; a process is spawned only while
\* no handle is held; the handle is cleared only for a process that has
\* been made to exit
C32_OneChild ==
  [][
      /\ Cardinality(Alive') <= 1
      /\ (Alive' # Alive /\ Alive \subseteq Alive') => child = NoProc
      /\ (child # NoProc /\ child' = NoProc) => child \notin Alive'
    ]_vars

\* ------------------------------------------------ the reader task, C31
\* the reader of c takes the next item of its stream in this step
Reads(c) ==
  /\ reader[c] = "run" /\ reader'[c] = "run"
  /\ inbox[c] # <<>> /\ inbox'[c] = Tail(inbox[c])

\* C31: a text frame that is JSON makes the reader emit one relay-event for
\* its url, and nothing else does; a frame that is no text and a text that
\* does not parse are dropped and the reader reads on; the reader leaves
\* its loop on a Close frame, a read error or the end of the stream only,
\* and then emits `disconnected`, next removes the entry of its url, next
\* enters schedule_reconnect
C31_ReaderContract ==
  [][\A c \in Conns :
       /\ Reads(c) =>
            /\ Head(inbox[c]) \notin Breaks
            /\ Head(inbox[c]) = "json" =>
                 /\ revs'[c] = revs[c] + 1
                 /\ out' = Emit("relay-event", curl[c], c)
            /\ Head(inbox[c]) # "json" =>
                 /\ revs'[c] = revs[c]
                 /\ out'.ev = "none"
       /\ (revs'[c] > revs[c] \/ (out'.ev = "relay-event" /\ out'.conn = c)) =>
            Reads(c) /\ Head(inbox[c]) = "json"
       /\ (reader[c] = "run" /\ reader'[c] # "run") =>
            /\ StreamEnds(c)
            /\ reader'[c] = "rm"
            /\ out' = Emit("disconnected", curl[c], c)
            /\ connections' = connections
       /\ (reader[c] = "rm" /\ reader'[c] # "rm") =>
            /\ reader'[c] = "s_des"
            /\ connections'[curl[c]] = NoConn
            /\ out'.ev = "none"
       /\ (reader[c] = "s_des" /\ reader'[c] # "s_des") =>
            /\ reader'[c] \in {"s_inf", "dead"}
            /\ reader'[c] = "s_inf" <=> curl[c] \in desired
     ]_vars

\* a reader has forwarded a JSON text frame, then met a Close frame, emitted
\* `disconnected`, removed its entry and gone through schedule_reconnect
C31_Witness ==
  \E c \in Conns :
    /\ seen[c] = <<"json">> /\ revs[c] = 1
    /\ inbox[c] # <<>> /\ Head(inbox[c]) = "close"
    /\ reader[c] = "dead" /\ sock[c] = "open"
    /\ evs[c] = <<"connected", "disconnected">>
    /\ connections[curl[c]] = NoConn
    /\ \E t \in Tasks : rtask[t].pc = "sleep" /\ rtask[t].url = curl[c]

\* ------------------------------------ events after a disconnect, C38
\* C38: no relay-event is emitted for a url whose disconnect_relay has
\* returned, until the user calls connect_relay for it again
C38_NoEventAfterDisconnect ==
  [][\A c \in Conns :
       (out'.ev = "relay-event" /\ out'.conn = c) => ~cancelled[curl[c]]]_vars

====
